---------------------------- MODULE Spec2Model ----------------------------
(***************************************************************************)
(* Model of the stack facade of the Portainer MCP client                   *)
(* (pkg/portainer/client: GetStacks, GetStackFile, GetStackEnvNames,       *)
(* CreateStack, UpdateStack and their helpers).                            *)
(*                                                                         *)
(* Text that the code inspects character by character (error bodies and    *)
(* error strings) is a sequence of one-character strings.  Text that the   *)
(* code only compares for equality or emptiness (names, values, file       *)
(* contents, the token) is a TLA+ string.                                  *)
(***************************************************************************)
EXTENDS Integers, Sequences, FiniteSets, TLC

VARIABLES
  serverURL,   \* PortainerClient.serverURL
  token,       \* PortainerClient.token
  op,          \* the public operation last executed, with its arguments
  calls,       \* the remote calls that operation made, in order, with outcomes
  ret,         \* what the operation returned
  existing,    \* mergeEnvOverrides: first argument
  overrides,   \* mergeEnvOverrides: second argument
  merged,      \* mergeEnvOverrides: result
  mergePc,     \* "idle" | "input" | "done"
  clsErr,      \* shouldFallbackToEdge: argument
  clsResult,   \* shouldFallbackToEdge: result
  clsPc,       \* "idle" | "input" | "done"
  parseRaw,    \* parseStackEnv: argument
  parseOut,    \* parseStackEnv: result
  parsePc,     \* "idle" | "input" | "done"
  readOnly,    \* PortainerMCPServer.readOnly
  definedTools,\* PortainerMCPServer.tools: the tools that have a definition
  registered,  \* the tools registered with the MCP server
  request,     \* the tool call last served: tool name and arguments
  cliCall,     \* the call that handler made on the client, if any
  result,      \* the tool result that handler returned
  srvPc        \* "idle" | "new" | "serving"

facadeVars == <<serverURL, token, op, calls, ret>>
mergeVars  == <<existing, overrides, merged, mergePc>>
clsVars    == <<clsErr, clsResult, clsPc>>
parseVars  == <<parseRaw, parseOut, parsePc>>
toolVars   == <<readOnly, definedTools, registered, request, cliCall, result, srvPc>>
vars       == <<serverURL, token, op, calls, ret,
                existing, overrides, merged, mergePc,
                clsErr, clsResult, clsPc,
                parseRaw, parseOut, parsePc,
                readOnly, definedTools, registered, request, cliCall, result, srvPc>>

-----------------------------------------------------------------------------
(* Bounds *)

MaxExisting  == 3   \* longest server-stored environment list explored
MaxOverrides == 3   \* longest override list explored
MaxEntries   == 2   \* longest environment array handed to parseStackEnv

-----------------------------------------------------------------------------
(* Sequences *)

SeqsUpTo(S, n) == UNION {[1..k -> S] : k \in 0..n}

Range(s) == {s[i] : i \in DOMAIN s}

\* Body(value), with value computed once: a local variable of the code.
With(value, Body(_)) == CHOOSE r \in {Body(v) : v \in {value}} : TRUE

-----------------------------------------------------------------------------
(* Text: sequences of one-character strings *)

MarkerEdgeStackUpdate ==
  <<"e","d","g","e","s","t","a","c","k","u","p","d","a","t","e">>

MarkerEdgeStack ==
  <<"e","d","g","e"," ","s","t","a","c","k">>

ApiStatusText ==
  <<"a","p","i"," ","r","e","t","u","r","n","e","d"," ","s","t","a","t","u","s">>

ColonSpace ==
  <<":"," ">>

PrefixMakeRequest ==
  <<"f","a","i","l","e","d"," ","t","o"," ","m","a","k","e"," ","h","t","t","p"," ","r","e","q","u","e","s","t",":"," ">>

PrefixCreateRequest ==
  <<"f","a","i","l","e","d"," ","t","o"," ","c","r","e","a","t","e"," ","r","e","q","u","e","s","t",":"," ">>

PrefixReadBody ==
  <<"f","a","i","l","e","d"," ","t","o"," ","r","e","a","d"," ","r","e","s","p","o","n","s","e"," ","b","o","d","y",":"," ">>

PrefixParseJson ==
  <<"f","a","i","l","e","d"," ","t","o"," ","p","a","r","s","e"," ","r","e","s","p","o","n","s","e"," ","j","s","o","n",":"," ">>

PrefixParseEnv ==
  <<"f","a","i","l","e","d"," ","t","o"," ","p","a","r","s","e"," ","s","t","a","c","k"," ","e","n","v",":"," ">>

UpperLetters ==
  <<"A","B","C","D","E","F","G","H","I","J","K","L","M","N","O","P","Q","R","S","T","U","V","W","X","Y","Z">>

LowerLetters ==
  <<"a","b","c","d","e","f","g","h","i","j","k","l","m","n","o","p","q","r","s","t","u","v","w","x","y","z">>

Digits ==
  <<"0","1","2","3","4","5","6","7","8","9">>

\* Sample texts: response bodies and messages of transport and decoding failures.
T_empty ==
  <<>>

T_notFound ==
  <<"n","o","t"," ","f","o","u","n","d">>

T_accessDenied ==
  <<"a","c","c","e","s","s"," ","d","e","n","i","e","d">>

T_edgeStackMixed ==
  <<"E","d","g","e"," ","S","t","a","c","k"," ","7"," ","i","s"," ","n","o","t"," ","a"," ","r","e","g","u","l","a","r"," ","s","t","a","c","k">>

T_edgeStackUpdateUpper ==
  <<"E","D","G","E","S","T","A","C","K","U","P","D","A","T","E"," ","r","e","j","e","c","t","e","d">>

T_edgeStackLower ==
  <<"n","o"," ","e","d","g","e"," ","s","t","a","c","k">>

T_edgestackNoSpace ==
  <<"e","d","g","e","s","t","a","c","k"," ","m","i","s","s","i","n","g">>

T_knowledge ==
  <<"k","n","o","w","l","e","d","g","e"," ","s","t","a","c","k","e","d">>

T_connRefused ==
  <<"d","i","a","l"," ","t","c","p",":"," ","c","o","n","n","e","c","t","i","o","n"," ","r","e","f","u","s","e","d">>

T_lookupEdgeHost ==
  <<"l","o","o","k","u","p"," ","E","d","g","e"," ","S","t","a","c","k",".","l","o","c","a","l",":"," ","n","o"," ","s","u","c","h"," ","h","o","s","t">>

T_lookupApiHost ==
  <<"d","i","a","l"," ","t","c","p",":"," ","l","o","o","k","u","p"," ","a","p","i",":"," ","n","o"," ","s","u","c","h"," ","h","o","s","t">>

T_invalidEscape ==
  <<"i","n","v","a","l","i","d"," ","U","R","L"," ","e","s","c","a","p","e">>

T_unexpectedEOF ==
  <<"u","n","e","x","p","e","c","t","e","d"," ","E","O","F">>

T_invalidJson ==
  <<"i","n","v","a","l","i","d"," ","c","h","a","r","a","c","t","e","r">>

T_cannotUnmarshal ==
  <<"j","s","o","n",":"," ","c","a","n","n","o","t"," ","u","n","m","a","r","s","h","a","l">>

\* strings.ToLower, on ASCII letters.
LowerOf ==
  [c \in Range(UpperLetters) |->
     LowerLetters[CHOOSE i \in DOMAIN UpperLetters : UpperLetters[i] = c]]

ToLowerChar(c) == IF c \in DOMAIN LowerOf THEN LowerOf[c] ELSE c

ToLower(s) == With(s, LAMBDA t : [i \in DOMAIN t |-> ToLowerChar(t[i])] \o <<>>)

\* strings.Contains
Contains(s, sub) ==
  \E i \in 0..(Len(s) - Len(sub)) : SubSeq(s, i + 1, i + Len(sub)) = sub

\* fmt's %d for a non-negative integer.
RECURSIVE Itoa(_)
Itoa(n) ==
  IF n < 10 THEN <<Digits[n + 1]>>
  ELSE Itoa(n \div 10) \o <<Digits[(n % 10) + 1]>>

-----------------------------------------------------------------------------
(* Errors *)

\* net/http status codes the code names.
StatusOK              == 200
StatusMultipleChoices == 300
StatusNotFound        == 404

\* Go's nil error.
NilErr == [k |-> "nil"]

\* &apiStatusError{statusCode, body}
apiStatusError(statusCode, body) == [k |-> "api", statusCode |-> statusCode, body |-> body]

\* An error of a library (net/http, encoding/json, the edge SDK): only its text is known.
OpaqueErr(text) == [k |-> "opaque", text |-> text]

\* fmt.Errorf(prefix + "%w", inner)
WrapErr(prefix, inner) == [k |-> "wrap", prefix |-> prefix, inner |-> inner]

\* (*apiStatusError).Error
apiStatusErrorString(e) ==
  IF Len(e.body) = 0
  THEN ApiStatusText \o <<" ">> \o Itoa(e.statusCode)
  ELSE ApiStatusText \o <<" ">> \o Itoa(e.statusCode) \o ColonSpace \o e.body

\* err.Error()
RECURSIVE ErrorString(_)
ErrorString(e) ==
  CASE e.k = "api"    -> apiStatusErrorString(e)
    [] e.k = "opaque" -> e.text
    [] e.k = "wrap"   -> e.prefix \o ErrorString(e.inner)

\* errors.As(err, &apiErr): the first *apiStatusError in the chain, or NilErr.
RECURSIVE ErrorsAsApiStatus(_)
ErrorsAsApiStatus(e) ==
  CASE e.k = "api"  -> e
    [] e.k = "wrap" -> ErrorsAsApiStatus(e.inner)
    [] OTHER        -> NilErr

\* Variant of isEdgeStackErrorMessage that forgets to lower-case the message.
isEdgeStackErrorMessageCaseSensitive(message) ==
  With(message, LAMBDA lower :
    Contains(lower, MarkerEdgeStackUpdate) \/ Contains(lower, MarkerEdgeStack))

isEdgeStackErrorMessage(message) ==
  With(ToLower(message), LAMBDA lower :
    Contains(lower, MarkerEdgeStackUpdate) \/ Contains(lower, MarkerEdgeStack))

\* Variant of shouldFallbackToEdge that falls back on every status error.
shouldFallbackToEdgeAnyStatus(err) ==
  With(err, LAMBDA e :
    With(ErrorsAsApiStatus(e), LAMBDA apiErr :
      IF apiErr.k = "api" THEN TRUE
      ELSE isEdgeStackErrorMessage(ErrorString(e))))

\* Variant of shouldFallbackToEdge that only looks at the status code and body.
shouldFallbackToEdgeStatusOnly(err) ==
  With(ErrorsAsApiStatus(err), LAMBDA apiErr :
    apiErr.k = "api" /\ (apiErr.statusCode = StatusNotFound \/ isEdgeStackErrorMessage(apiErr.body)))

shouldFallbackToEdge(err) ==
  With(err, LAMBDA e :
    With(ErrorsAsApiStatus(e), LAMBDA apiErr :
      IF apiErr.k = "api" /\ apiErr.statusCode = StatusNotFound THEN TRUE
      ELSE IF apiErr.k = "api" /\ isEdgeStackErrorMessage(apiErr.body) THEN TRUE
      ELSE isEdgeStackErrorMessage(ErrorString(e))))

-----------------------------------------------------------------------------
(* models.StackEnvVar *)

StackEnvVar(name, value) == [Name |-> name, Value |-> value]

EnvNames  == {"", "A", "B", "C"}
EnvValues == {"1", "9"}
EnvVars   == {StackEnvVar(n, v) : n \in EnvNames, v \in EnvValues}

-----------------------------------------------------------------------------
(* JSON values, as far as the decoders of this package tell them apart *)

JInvalid     == [j |-> "invalid"]                 \* not a JSON document
JAbsent      == [j |-> "absent"]                  \* a field the document does not have
JNull        == [j |-> "null"]
JString(s)   == [j |-> "string", s |-> s]
JNumber(n)   == [j |-> "number", n |-> n]
JArray(items) == [j |-> "array", items |-> items]
\* An object is the sequence of its <<key, value>> members, in document order.
JObject(members) == [j |-> "object", members |-> members]

KeyNameLower  == <<"n","a","m","e">>
KeyValueLower == <<"v","a","l","u","e">>
KeyNameAlt    == <<"N","a","m","e">>
KeyValueAlt   == <<"V","a","l","u","e">>
KeyNameUpper  == <<"N","A","M","E">>
KeyOther      == <<"k","e","y">>

\* encoding/json matches an object key to a struct field by its JSON name,
\* exactly or ignoring case.
KeyMatches(key, fieldName) == key = fieldName \/ ToLower(key) = ToLower(fieldName)

\* Decoding the members of one object into a string field: members are taken
\* in order, a string is stored, null leaves the field alone, anything else is
\* a type error.
RECURSIVE DecodeStringField(_, _, _, _)
DecodeStringField(members, i, fieldName, acc) ==
  IF i > Len(members) THEN acc
  ELSE LET key == members[i][1]
           val == members[i][2]
       IN  IF ~KeyMatches(key, fieldName) THEN DecodeStringField(members, i + 1, fieldName, acc)
           ELSE IF val.j = "string"
                THEN DecodeStringField(members, i + 1, fieldName, [acc EXCEPT !.s = val.s])
           ELSE IF val.j = "null"
                THEN DecodeStringField(members, i + 1, fieldName, acc)
           ELSE DecodeStringField(members, i + 1, fieldName, [acc EXCEPT !.ok = FALSE])

\* json.Unmarshal of one array element into a struct of two string fields.
DecodeEnvEntry(item, nameKey, valueKey) ==
  IF item.j = "null" THEN [ok |-> TRUE, entry |-> StackEnvVar("", "")]
  ELSE IF item.j # "object" THEN [ok |-> FALSE, entry |-> StackEnvVar("", "")]
  ELSE With(DecodeStringField(item.members, 1, nameKey, [ok |-> TRUE, s |-> ""]), LAMBDA n :
       With(DecodeStringField(item.members, 1, valueKey, [ok |-> TRUE, s |-> ""]), LAMBDA v :
         [ok |-> n.ok /\ v.ok, entry |-> StackEnvVar(n.s, v.s)]))

\* json.Unmarshal(raw, &list) for a list of such structs.
DecodeEnvList(raw, nameKey, valueKey) ==
  IF raw.j = "null" THEN [ok |-> TRUE, list |-> <<>>]
  ELSE IF raw.j # "array" THEN [ok |-> FALSE, list |-> <<>>]
  ELSE With([i \in DOMAIN raw.items |-> DecodeEnvEntry(raw.items[i], nameKey, valueKey)] \o <<>>,
            LAMBDA decoded :
              [ok   |-> \A i \in DOMAIN decoded : decoded[i].ok,
               list |-> [i \in DOMAIN decoded |-> decoded[i].entry]])

\* JSON names of the fields of models.StackEnvVar.
StackEnvVarNameKey  == KeyNameLower
StackEnvVarValueKey == KeyValueLower

\* JSON names of the fields of stackEnvEntryAlt.
stackEnvEntryAltNameKey  == KeyNameAlt
stackEnvEntryAltValueKey == KeyValueAlt

hasEnvValues(env) ==
  \E i \in DOMAIN env : env[i].Name # "" \/ env[i].Value # ""

\* Variant of parseStackEnv that never retries with the alternate shape.
parseStackEnvDecodedNoRetry(primary, alt) ==
  IF primary.ok /\ (Len(primary.list) = 0 \/ hasEnvValues(primary.list))
  THEN [env |-> primary.list, err |-> NilErr]
  ELSE [env |-> <<>>, err |-> WrapErr(PrefixParseEnv, OpaqueErr(T_cannotUnmarshal))]

\* parseStackEnv once both decodes are known.
parseStackEnvDecoded(primary, alt) ==
  IF primary.ok /\ (Len(primary.list) = 0 \/ hasEnvValues(primary.list))
  THEN [env |-> primary.list, err |-> NilErr]
  ELSE IF ~alt.ok
       THEN [env |-> <<>>, err |-> WrapErr(PrefixParseEnv, OpaqueErr(T_cannotUnmarshal))]
  ELSE IF Len(alt.list) = 0 THEN [env |-> <<>>, err |-> NilErr]
  ELSE [env |-> [i \in DOMAIN alt.list |->
                   StackEnvVar(alt.list[i].Name, alt.list[i].Value)],
        err |-> NilErr]

parseStackEnv(raw) ==
  With(raw, LAMBDA r :
    IF r.j = "absent" \/ r.j = "null" THEN [env |-> <<>>, err |-> NilErr]
    ELSE With(DecodeEnvList(r, StackEnvVarNameKey, StackEnvVarValueKey), LAMBDA primary :
         With(DecodeEnvList(r, stackEnvEntryAltNameKey, stackEnvEntryAltValueKey), LAMBDA alt :
           parseStackEnvDecoded(primary, alt))))

-----------------------------------------------------------------------------
(* One HTTP exchange, as the network and the server decide it *)

\* client.Do fails.
TransportFailure(msg) == [t |-> "transport", msg |-> msg]

\* A response arrives.  A body is either plain text (not a JSON document) or a
\* JSON document; a JSON document is only ever sent with status 200, where the
\* code decodes it and never reads it as text.  "broken" is a body whose read
\* fails after the text received so far.
TextBody(text)        == [b |-> "text", text |-> text, doc |-> JInvalid]
JsonBody(doc)         == [b |-> "json", text |-> <<"{", "}">>, doc |-> doc]
BrokenBody(text, msg) == [b |-> "broken", text |-> text, doc |-> JInvalid, msg |-> msg]
Response(status, body) == [t |-> "resp", status |-> status, body |-> body]

\* url.Parse of "https://" + serverURL + path, as http.NewRequest runs it.
UrlParses(url) == url # "%zz"

\* Normalising serverURL, http.NewRequest and client.Do: what the helper sees.
\* With an unparsable URL no request is built. Any other serverURL gives a
\* request that is sent, and the helper sees the exchange x: an empty serverURL
\* becomes "https://", loses its last "/" and, joined to "/api/stacks...",
\* addresses the host "api" like any other host.
HttpDo(url, x) ==
  IF ~UrlParses(url) THEN [t |-> "badreq", msg |-> T_invalidEscape]
  ELSE x

\* The error of the steps every helper shares, or NilErr when a response with
\* a readable status arrived.
RequestErr(o) ==
  CASE o.t = "badreq"    -> WrapErr(PrefixCreateRequest, OpaqueErr(o.msg))
    [] o.t = "transport" -> WrapErr(PrefixMakeRequest, OpaqueErr(o.msg))
    [] OTHER             -> NilErr

\* fmt.Errorf("api returned status %d: %s", resp.StatusCode, string(body))
PlainStatusErr(status, text) ==
  OpaqueErr(ApiStatusText \o <<" ">> \o Itoa(status) \o ColonSpace \o text)

\* io.ReadAll, then json.Unmarshal of a 200 response: the document, or the error.
ReadAndParse(body) ==
  IF body.b = "broken" THEN [doc |-> JInvalid, err |-> WrapErr(PrefixReadBody, OpaqueErr(body.msg))]
  ELSE IF body.doc.j = "invalid"
       THEN [doc |-> JInvalid, err |-> WrapErr(PrefixParseJson, OpaqueErr(T_invalidJson))]
  ELSE [doc |-> body.doc, err |-> NilErr]

\* GET /api/stacks.  The document of a 200 response is an array of stack
\* objects (items: the models.RegularStack each decodes to), or null.
listRegularStacksHTTP(url, x) ==
  LET o == HttpDo(url, x) IN
  IF o.t # "resp" THEN [stacks |-> <<>>, err |-> RequestErr(o)]
  ELSE IF o.status # StatusOK
       THEN [stacks |-> <<>>, err |-> PlainStatusErr(o.status, o.body.text)]
  ELSE LET p == ReadAndParse(o.body) IN
       IF p.err.k # "nil" THEN [stacks |-> <<>>, err |-> p.err]
       ELSE IF p.doc.j = "null" THEN [stacks |-> <<>>, err |-> NilErr]
       ELSE IF p.doc.j # "array"
            THEN [stacks |-> <<>>, err |-> WrapErr(PrefixParseJson, OpaqueErr(T_cannotUnmarshal))]
       ELSE [stacks |-> p.doc.items, err |-> NilErr]

\* GET /api/stacks/{id}/file.  The document of a 200 response is an object
\* with the string StackFileContent, or null.
getRegularStackFileHTTP(url, id, x) ==
  LET o == HttpDo(url, x) IN
  IF o.t # "resp" THEN [file |-> "", err |-> RequestErr(o)]
  ELSE IF o.status # StatusOK
       THEN [file |-> "", err |-> PlainStatusErr(o.status, o.body.text)]
  ELSE LET p == ReadAndParse(o.body) IN
       IF p.err.k # "nil" THEN [file |-> "", err |-> p.err]
       ELSE IF p.doc.j = "null" THEN [file |-> "", err |-> NilErr]
       ELSE IF p.doc.j # "object"
            THEN [file |-> "", err |-> WrapErr(PrefixParseJson, OpaqueErr(T_cannotUnmarshal))]
       ELSE [file |-> p.doc.StackFileContent, err |-> NilErr]

\* GET /api/stacks/{id}.  The document of a 200 response is an object with
\* the integer EndpointId and the raw Env, or null.
getRegularStackDetailsHTTP(url, id, x) ==
  LET o == HttpDo(url, x) IN
  IF o.t # "resp" THEN [endpointId |-> 0, env |-> <<>>, err |-> RequestErr(o)]
  ELSE IF o.status # StatusOK
       THEN [endpointId |-> 0, env |-> <<>>, err |-> apiStatusError(o.status, o.body.text)]
  ELSE LET p == ReadAndParse(o.body) IN
       IF p.err.k # "nil" THEN [endpointId |-> 0, env |-> <<>>, err |-> p.err]
       ELSE IF p.doc.j = "null" THEN [endpointId |-> 0, env |-> <<>>, err |-> NilErr]
       ELSE IF p.doc.j # "object"
            THEN [endpointId |-> 0, env |-> <<>>,
                  err |-> WrapErr(PrefixParseJson, OpaqueErr(T_cannotUnmarshal))]
       ELSE With(parseStackEnv(p.doc.Env), LAMBDA parsed :
              IF parsed.err.k # "nil" THEN [endpointId |-> 0, env |-> <<>>, err |-> parsed.err]
              ELSE [endpointId |-> p.doc.EndpointId, env |-> parsed.env, err |-> NilErr])

\* Variant of the payload that asks the server to prune.
UpdatePayloadPruning(file, env) ==
  [StackFileContent |-> file, Prune |-> TRUE, PullImage |-> FALSE, Env |-> env]

\* The JSON payload of the regular update.
UpdatePayload(file, env) ==
  [StackFileContent |-> file, Prune |-> FALSE, PullImage |-> FALSE, Env |-> env]

\* PUT /api/stacks/{id}?endpointId={endpointId}
updateRegularStackHTTP(url, id, endpointId, file, env, x) ==
  LET o == HttpDo(url, x) IN
  IF o.t # "resp" THEN RequestErr(o)
  ELSE IF o.status < StatusOK \/ o.status >= StatusMultipleChoices
       THEN apiStatusError(o.status, o.body.text)
  ELSE NilErr

-----------------------------------------------------------------------------
(* mergeEnvOverrides *)

\* Go map assignment m[k] = v.
MapPut(m, k, v) == [x \in (DOMAIN m) \cup {k} |-> IF x = k THEN v ELSE m[x]]

EmptyMap == [x \in {} |-> ""]

\* Variant of the override scan that keeps the first value of a repeated name.
RECURSIVE OverrideLoopFirstWins(_, _, _)
OverrideLoopFirstWins(ovs, i, acc) ==
  IF i > Len(ovs) THEN acc
  ELSE LET override == ovs[i] IN
       IF override.Name = "" THEN OverrideLoopFirstWins(ovs, i + 1, acc)
       ELSE IF override.Name \in DOMAIN acc.overrideValues
            THEN OverrideLoopFirstWins(ovs, i + 1, acc)
            ELSE OverrideLoopFirstWins(ovs, i + 1,
                   [overrideValues |-> MapPut(acc.overrideValues, override.Name, override.Value),
                    overrideOrder  |-> Append(acc.overrideOrder, override.Name)])

\* for _, override := range overrides { ... }
RECURSIVE OverrideLoop(_, _, _)
OverrideLoop(ovs, i, acc) ==
  IF i > Len(ovs) THEN acc
  ELSE LET override == ovs[i] IN
       IF override.Name = "" THEN OverrideLoop(ovs, i + 1, acc)
       ELSE OverrideLoop(ovs, i + 1,
              [overrideValues |-> MapPut(acc.overrideValues, override.Name, override.Value),
               overrideOrder  |->
                 IF override.Name \in DOMAIN acc.overrideValues
                 THEN acc.overrideOrder
                 ELSE Append(acc.overrideOrder, override.Name)])

\* for _, current := range existing { ... }
RECURSIVE ExistingLoop(_, _, _, _)
ExistingLoop(exs, i, overrideValues, acc) ==
  IF i > Len(exs) THEN acc
  ELSE LET current == exs[i] IN
       IF current.Name = "" THEN ExistingLoop(exs, i + 1, overrideValues, acc)
       ELSE IF current.Name \in DOMAIN overrideValues
            THEN ExistingLoop(exs, i + 1, overrideValues,
                   [merged |-> Append(acc.merged,
                                 StackEnvVar(current.Name, overrideValues[current.Name])),
                    seen   |-> acc.seen \cup {current.Name}])
            ELSE ExistingLoop(exs, i + 1, overrideValues,
                   [merged |-> Append(acc.merged, current),
                    seen   |-> acc.seen \cup {current.Name}])

\* for _, name := range overrideOrder { ... }
RECURSIVE AppendLoop(_, _, _, _)
AppendLoop(overrideOrder, i, overrideValues, acc) ==
  IF i > Len(overrideOrder) THEN acc
  ELSE LET name == overrideOrder[i] IN
       IF name \in acc.seen THEN AppendLoop(overrideOrder, i + 1, overrideValues, acc)
       ELSE AppendLoop(overrideOrder, i + 1, overrideValues,
              [merged |-> Append(acc.merged, StackEnvVar(name, overrideValues[name])),
               seen   |-> acc.seen \cup {name}])

\* The three loops of mergeEnvOverrides, without its early returns.
MergeLoops(exs, ovs) ==
  LET scan   == OverrideLoop(ovs, 1, [overrideValues |-> EmptyMap, overrideOrder |-> <<>>])
      walked == ExistingLoop(exs, 1, scan.overrideValues, [merged |-> <<>>, seen |-> {}])
  IN  AppendLoop(scan.overrideOrder, 1, scan.overrideValues, walked).merged

\* Variant of mergeEnvOverrides without the early returns.
mergeEnvOverridesNoEarlyReturn(exs, ovs) == MergeLoops(exs, ovs)

mergeEnvOverrides(exs, ovs) ==
  IF Len(ovs) = 0 THEN exs
  ELSE LET scan == OverrideLoop(ovs, 1, [overrideValues |-> EmptyMap, overrideOrder |-> <<>>])
       IN  IF Cardinality(DOMAIN scan.overrideValues) = 0 THEN exs
           ELSE MergeLoops(exs, ovs)

-----------------------------------------------------------------------------
(* models.Stack and the conversions to it *)

\* A Go slice of integers: nil, or a (possibly empty) list.
NilSlice   == [null |-> TRUE, ids |-> <<>>]
Slice(ids) == [null |-> FALSE, ids |-> ids]

Pad2(n) == <<Digits[(n \div 10) + 1], Digits[(n % 10) + 1]>>

Pad4(n) == Pad2(n \div 100) \o Pad2(n % 100)

\* time.Unix(sec, 0).Format(time.RFC3339) for sec >= 0, in UTC.
FormatRFC3339(sec) ==
  LET days == sec \div 86400
      rem  == sec % 86400
      z    == days + 719468
      era  == z \div 146097
      doe  == z - era * 146097
      yoe  == (doe - doe \div 1460 + doe \div 36524 - doe \div 146096) \div 365
      doy  == doe - (365 * yoe + yoe \div 4 - yoe \div 100)
      mp   == (5 * doy + 2) \div 153
      d    == doy - (153 * mp + 2) \div 5 + 1
      m    == IF mp < 10 THEN mp + 3 ELSE mp - 9
      y    == yoe + era * 400 + (IF m <= 2 THEN 1 ELSE 0)
  IN  Pad4(y) \o <<"-">> \o Pad2(m) \o <<"-">> \o Pad2(d) \o <<"T">>
        \o Pad2(rem \div 3600) \o <<":">> \o Pad2((rem % 3600) \div 60) \o <<":">>
        \o Pad2(rem % 60) \o <<"Z">>

RegularStack(id, name, type, endpointId, creationDate, status) ==
  [ID |-> id, Name |-> name, Type |-> type, EndpointId |-> endpointId,
   CreationDate |-> creationDate, Status |-> status]

EdgeStack(id, name, creationDate, edgeGroups) ==
  [ID |-> id, Name |-> name, CreationDate |-> creationDate, EdgeGroups |-> edgeGroups]

Stack(id, name, createdAt, environmentGroupIds) ==
  [ID |-> id, Name |-> name, CreatedAt |-> createdAt,
   EnvironmentGroupIds |-> environmentGroupIds]

ConvertRegularStackToStack(rs) ==
  Stack(rs.ID, rs.Name, FormatRFC3339(rs.CreationDate), Slice(<<>>))

ConvertEdgeStackToStack(es) ==
  Stack(es.ID, es.Name, FormatRFC3339(es.CreationDate), Slice(es.EdgeGroups.ids))

\* utils.IntToInt64Slice
IntToInt64Slice(ids) == [i \in DOMAIN ids |-> ids[i]]

-----------------------------------------------------------------------------
(* The five public operations *)
(* Each takes the client's fields, its arguments, and what the network, the *)
(* server and the edge SDK answer to each call it may make; it yields the   *)
(* calls it made, in order, and what it returns.                            *)

Call(prim, args, out) == [prim |-> prim, args |-> args, out |-> out]

\* Variant of FmtErr that formats the cause with %v, which does not wrap it.
FmtErrPrintOnly(format, wraps, also) ==
  [k |-> "fmt", format |-> format, wraps |-> NilErr, also |-> also]

\* fmt.Errorf(format, wraps[, also]): %w wraps, %v only prints.
FmtErr(format, wraps, also) == [k |-> "fmt", format |-> format, wraps |-> wraps, also |-> also]

ErrStackEnvNamesNeedConfig == "stack env names require server url and token"
ErrStackEnvNamesEdge       == "stack env names are not available for edge stacks"
ErrOverridesEdge           == "stack env overrides are not supported for edge stacks"
ErrOverridesNeedConfig     == "stack env overrides require a Portainer server url and token"

\* Variant of the conversion loop that fills the result back to front.
convertRegularStacksReversed(regularStacks) ==
  [i \in DOMAIN regularStacks |->
     ConvertRegularStackToStack(regularStacks[Len(regularStacks) + 1 - i])]

\* for i, regularStack := range regularStacks { stacks[i] = ... }
convertRegularStacks(regularStacks) ==
  [i \in DOMAIN regularStacks |-> ConvertRegularStackToStack(regularStacks[i])]

\* Variant of the edge conversion loop that fills the result back to front.
convertEdgeStacksReversed(edgeStacks) ==
  [i \in DOMAIN edgeStacks |->
     ConvertEdgeStackToStack(edgeStacks[Len(edgeStacks) + 1 - i])]

\* for i, es := range edgeStacks { stacks[i] = ... }
convertEdgeStacks(edgeStacks) ==
  [i \in DOMAIN edgeStacks |-> ConvertEdgeStackToStack(edgeStacks[i])]

GetStacks(url, xList, sdkList) ==
  LET r  == listRegularStacksHTTP(url, xList)
      c1 == Call("listRegularStacksHTTP", <<>>, r)
      c2 == Call("ListEdgeStacks", <<>>, sdkList)
  IN  IF r.err.k = "nil" /\ Len(r.stacks) > 0
      THEN [calls |-> <<c1>>,
            ret   |-> [stacks |-> convertRegularStacks(r.stacks), err |-> NilErr]]
      ELSE IF sdkList.err.k # "nil"
           THEN IF r.err.k # "nil"
                THEN [calls |-> <<c1, c2>>,
                      ret   |-> [stacks |-> <<>>,
                                 err |-> FmtErr("failed to list regular stacks: %w (edge stacks also failed: %v)",
                                                r.err, sdkList.err)]]
                ELSE [calls |-> <<c1, c2>>,
                      ret   |-> [stacks |-> <<>>,
                                 err |-> FmtErr("failed to list edge stacks: %w", sdkList.err, NilErr)]]
      ELSE [calls |-> <<c1, c2>>,
            ret   |-> [stacks |-> convertEdgeStacks(sdkList.stacks), err |-> NilErr]]

\* Variant of regularFileWins that accepts empty content.
regularFileWinsEvenEmpty(r) == r.err.k = "nil"

\* if err == nil && file != "" of GetStackFile
regularFileWins(r) == r.err.k = "nil" /\ r.file # ""

GetStackFile(url, id, xFile, sdkFile) ==
  LET r  == getRegularStackFileHTTP(url, id, xFile)
      c1 == Call("getRegularStackFileHTTP", [id |-> id], r)
      c2 == Call("GetEdgeStackFile", [id |-> id], sdkFile)
  IN  IF regularFileWins(r)
      THEN [calls |-> <<c1>>, ret |-> [file |-> r.file, err |-> NilErr]]
      ELSE IF sdkFile.err.k # "nil"
           THEN IF r.err.k # "nil"
                THEN [calls |-> <<c1, c2>>,
                      ret   |-> [file |-> "",
                                 err |-> FmtErr("failed to get regular stack file: %w (edge stack also failed: %v)",
                                                r.err, sdkFile.err)]]
                ELSE [calls |-> <<c1, c2>>,
                      ret   |-> [file |-> "",
                                 err |-> FmtErr("failed to get edge stack file: %w", sdkFile.err, NilErr)]]
      ELSE [calls |-> <<c1, c2>>, ret |-> [file |-> sdkFile.file, err |-> NilErr]]

\* Variant of EnvNamesLoop that skips repeats only, not blank names.
RECURSIVE EnvNamesLoopKeepingBlanks(_, _, _)
EnvNamesLoopKeepingBlanks(env, i, acc) ==
  IF i > Len(env) THEN acc
  ELSE IF env[i].Name \in acc.seen
       THEN EnvNamesLoopKeepingBlanks(env, i + 1, acc)
  ELSE EnvNamesLoopKeepingBlanks(env, i + 1,
         [names |-> Append(acc.names, env[i].Name), seen |-> acc.seen \cup {env[i].Name}])

\* for _, entry := range env { ... } of GetStackEnvNames
RECURSIVE EnvNamesLoop(_, _, _)
EnvNamesLoop(env, i, acc) ==
  IF i > Len(env) THEN acc
  ELSE IF env[i].Name = "" \/ env[i].Name \in acc.seen
       THEN EnvNamesLoop(env, i + 1, acc)
  ELSE EnvNamesLoop(env, i + 1,
         [names |-> Append(acc.names, env[i].Name), seen |-> acc.seen \cup {env[i].Name}])

\* Variant of envNamesNeedConfig that does not look at the token.
envNamesNeedConfigUrlOnly(url, tok) == url = ""

\* if c.serverURL == "" || c.token == "" of GetStackEnvNames
envNamesNeedConfig(url, tok) == url = "" \/ tok = ""

GetStackEnvNames(url, tok, id, xDetails) ==
  IF envNamesNeedConfig(url, tok)
  THEN [calls |-> <<>>,
        ret   |-> [names |-> <<>>, err |-> FmtErr(ErrStackEnvNamesNeedConfig, NilErr, NilErr)]]
  ELSE With(getRegularStackDetailsHTTP(url, id, xDetails), LAMBDA r :
         LET c1 == Call("getRegularStackDetailsHTTP", [id |-> id], r)
         IN  IF r.err.k # "nil"
             THEN IF shouldFallbackToEdge(r.err)
                  THEN [calls |-> <<c1>>,
                        ret   |-> [names |-> <<>>, err |-> FmtErr(ErrStackEnvNamesEdge, NilErr, NilErr)]]
                  ELSE [calls |-> <<c1>>,
                        ret   |-> [names |-> <<>>,
                                   err |-> FmtErr("failed to get stack details: %w", r.err, NilErr)]]
             ELSE [calls |-> <<c1>>,
                   ret   |-> [names |-> EnvNamesLoop(r.env, 1, [names |-> <<>>, seen |-> {}]).names,
                              err   |-> NilErr]])

\* Variant of CreateStack that drops the error of the primitive.
CreateStackDroppingError(name, file, environmentGroupIds, sdkCreate) ==
  [calls |-> <<Call("CreateEdgeStack",
                    [name |-> name, file |-> file, groups |-> IntToInt64Slice(environmentGroupIds)],
                    sdkCreate)>>,
   ret   |-> [id |-> sdkCreate.id, err |-> NilErr]]

CreateStack(name, file, environmentGroupIds, sdkCreate) ==
  LET c1 == Call("CreateEdgeStack",
                 [name |-> name, file |-> file, groups |-> IntToInt64Slice(environmentGroupIds)],
                 sdkCreate)
  IN  IF sdkCreate.err.k # "nil"
      THEN [calls |-> <<c1>>,
            ret   |-> [id |-> 0, err |-> FmtErr("failed to create edge stack: %w", sdkCreate.err, NilErr)]]
      ELSE [calls |-> <<c1>>, ret |-> [id |-> sdkCreate.id, err |-> NilErr]]

\* Variant of the fallback block that tries UpdateEdgeStack a second time when
\* it fails.
updateEdgeFallbackRetrying(made, err, format, edgeCall, envOverrides) ==
  IF Len(envOverrides) > 0
  THEN [calls |-> made, ret |-> [err |-> FmtErr(ErrOverridesEdge, NilErr, NilErr)]]
  ELSE IF edgeCall.out.err.k # "nil"
       THEN [calls |-> Append(Append(made, edgeCall), edgeCall),
             ret   |-> [err |-> FmtErr(format, err, edgeCall.out.err)]]
  ELSE [calls |-> Append(made, edgeCall), ret |-> [err |-> NilErr]]

\* Variant of the fallback block that forgets to reject overrides.
updateEdgeFallbackKeepingOverrides(made, err, format, edgeCall, envOverrides) ==
  IF edgeCall.out.err.k # "nil"
  THEN [calls |-> Append(made, edgeCall),
        ret   |-> [err |-> FmtErr(format, err, edgeCall.out.err)]]
  ELSE [calls |-> Append(made, edgeCall), ret |-> [err |-> NilErr]]

\* The block UpdateStack runs once shouldFallbackToEdge(err) holds, after the
\* calls in made: reject overrides, else UpdateEdgeStack.
updateEdgeFallback(made, err, format, edgeCall, envOverrides) ==
  IF Len(envOverrides) > 0
  THEN [calls |-> made, ret |-> [err |-> FmtErr(ErrOverridesEdge, NilErr, NilErr)]]
  ELSE IF edgeCall.out.err.k # "nil"
       THEN [calls |-> Append(made, edgeCall),
             ret   |-> [err |-> FmtErr(format, err, edgeCall.out.err)]]
  ELSE [calls |-> Append(made, edgeCall), ret |-> [err |-> NilErr]]

\* UpdateStack after a successful details fetch d, with the merged env.
updateRegularThenEdge(url, id, file, envOverrides, d, mergedEnv, xPut, cGet, cEdge) ==
  With(updateRegularStackHTTP(url, id, d.endpointId, file, mergedEnv, xPut), LAMBDA putErr :
    LET cPut == Call("updateRegularStackHTTP",
                     [id |-> id, endpointId |-> d.endpointId,
                      payload |-> UpdatePayload(file, mergedEnv)],
                     [err |-> putErr])
    IN  IF putErr.k = "nil"
        THEN [calls |-> <<cGet, cPut>>, ret |-> [err |-> NilErr]]
        ELSE IF shouldFallbackToEdge(putErr)
             THEN updateEdgeFallback(<<cGet, cPut>>, putErr,
                    "failed to update regular stack: %w (edge stack also failed: %v)",
                    cEdge, envOverrides)
        ELSE [calls |-> <<cGet, cPut>>,
              ret   |-> [err |-> FmtErr("failed to update regular stack: %w", putErr, NilErr)]])

\* Variant of updateStackConfigured that does not look at the token.
updateStackConfiguredUrlOnly(url, tok) == url # ""

\* if c.serverURL != "" && c.token != "" of UpdateStack
updateStackConfigured(url, tok) == url # "" /\ tok # ""

UpdateStack(url, tok, id, file, environmentGroupIds, envOverrides, xDetails, xPut, sdkUpdate) ==
  LET cEdge == Call("UpdateEdgeStack",
                    [id |-> id, file |-> file, groups |-> IntToInt64Slice(environmentGroupIds)],
                    [err |-> sdkUpdate])
  IN
  IF updateStackConfigured(url, tok)
  THEN With(getRegularStackDetailsHTTP(url, id, xDetails), LAMBDA d :
         LET cGet == Call("getRegularStackDetailsHTTP", [id |-> id], d)
         IN
         IF d.err.k = "nil"
         THEN With(mergeEnvOverrides(d.env, envOverrides), LAMBDA mergedEnv :
                updateRegularThenEdge(url, id, file, envOverrides, d, mergedEnv, xPut, cGet, cEdge))
         ELSE IF shouldFallbackToEdge(d.err)
              THEN updateEdgeFallback(<<cGet>>, d.err,
                     "failed to get regular stack details: %w (edge stack also failed: %v)",
                     cEdge, envOverrides)
         ELSE [calls |-> <<cGet>>,
               ret   |-> [err |-> FmtErr("failed to get regular stack details: %w", d.err, NilErr)]])
  ELSE IF Len(envOverrides) > 0
       THEN [calls |-> <<>>, ret |-> [err |-> FmtErr(ErrOverridesNeedConfig, NilErr, NilErr)]]
  ELSE IF sdkUpdate.k # "nil"
       THEN [calls |-> <<cEdge>>,
             ret   |-> [err |-> FmtErr("failed to update edge stack: %w", sdkUpdate, NilErr)]]
  ELSE [calls |-> <<cEdge>>, ret |-> [err |-> NilErr]]

-----------------------------------------------------------------------------
(* The parts of the state a specification does not use *)

FacadeIdle ==
  /\ serverURL = ""
  /\ token = ""
  /\ op = [name |-> "none"]
  /\ calls = <<>>
  /\ ret = [err |-> [k |-> "nil"]]

ClsIdle ==
  /\ clsErr = [k |-> "nil"]
  /\ clsResult = FALSE
  /\ clsPc = "idle"

MergeIdle ==
  /\ existing = <<>>
  /\ overrides = <<>>
  /\ merged = <<>>
  /\ mergePc = "idle"

ParseIdle ==
  /\ parseRaw = [j |-> "null"]
  /\ parseOut = [env |-> <<>>, err |-> [k |-> "nil"]]
  /\ parsePc = "idle"

ToolIdle ==
  /\ readOnly = FALSE
  /\ definedTools = {}
  /\ registered = {}
  /\ request = [tool |-> "none"]
  /\ cliCall = [method |-> "none"]
  /\ result = [isError |-> FALSE]
  /\ srvPc = "idle"

-----------------------------------------------------------------------------
(* The client in use: what the environment may answer, and one action per *)
(* public operation                                                        *)

ServerURLs == {"", "https://portainer.local", "%zz"}
Tokens     == {"", "test-token"}

StackIDs == {42, 76}

ComposeFiles == {"services: web"}

GroupIdLists == {<<>>, <<1, 2>>}

StackNames == {"test-stack"}

OverrideLists ==
  {<<>>,
   <<StackEnvVar("B", "9"), StackEnvVar("C", "1")>>,
   <<StackEnvVar("", "1")>>}

\* Failures of the edge SDK.
T_sdkFailed ==
  <<"s","d","k"," ","r","e","q","u","e","s","t"," ","f","a","i","l","e","d">>

SdkErrors == {OpaqueErr(T_sdkFailed), OpaqueErr(T_edgeStackLower)}

\* Failing exchanges: no response, or a response that no helper accepts.
FailedExchanges ==
  {TransportFailure(T_connRefused), TransportFailure(T_lookupEdgeHost),
   TransportFailure(T_lookupApiHost)}
    \cup {Response(c, TextBody(b)) :
            c \in {403, StatusNotFound, 500},
            b \in {T_empty, T_accessDenied, T_edgeStackMixed}}
    \cup {Response(500, BrokenBody(T_empty, T_unexpectedEOF))}

\* What a GET may meet besides a decodable 200 response.
FailedGets ==
  FailedExchanges
    \cup {Response(204, TextBody(T_empty)),
          Response(StatusOK, TextBody(T_notFound)),
          Response(StatusOK, BrokenBody(T_empty, T_unexpectedEOF))}

SampleRegularStacks ==
  {RegularStack(10, "regular-stack", 2, 3, 1700000000, 1),
   RegularStack(11, "web", 1, 4, 86399, 2)}

FileDoc(content) == [j |-> "object", StackFileContent |-> content]

DetailsDoc(endpointId, env) == [j |-> "object", EndpointId |-> endpointId, Env |-> env]

ListExchanges ==
  FailedGets
    \cup {Response(StatusOK, JsonBody(JArray(l))) : l \in SeqsUpTo(SampleRegularStacks, 2)}
    \cup {Response(StatusOK, JsonBody(JNull)), Response(StatusOK, JsonBody(FileDoc("")))}

FileExchanges ==
  FailedGets
    \cup {Response(StatusOK, JsonBody(FileDoc(c))) : c \in {"", "services: web"}}
    \cup {Response(StatusOK, JsonBody(JNull)), Response(StatusOK, JsonBody(JArray(<<>>)))}

EnvObject(nameKey, name, valueKey, value) ==
  JObject(<< <<nameKey, JString(name)>>, <<valueKey, JString(value)>> >>)

SampleRawEnvs ==
  {JAbsent, JNull, JArray(<<>>),
   JArray(<<EnvObject(KeyNameAlt, "A", KeyValueAlt, "1"),
            EnvObject(KeyNameAlt, "B", KeyValueAlt, "1")>>),
   JArray(<<EnvObject(KeyNameLower, "A", KeyValueLower, "1")>>),
   JArray(<<EnvObject(KeyNameAlt, "", KeyValueAlt, "1"),
            EnvObject(KeyNameAlt, "A", KeyValueAlt, "1"),
            EnvObject(KeyNameAlt, "A", KeyValueAlt, "9")>>),
   JArray(<<EnvObject(KeyNameLower, "B", KeyValueLower, "1"),
            EnvObject(KeyNameLower, "", KeyValueLower, "9"),
            EnvObject(KeyNameLower, "A", KeyValueLower, "1"),
            EnvObject(KeyNameLower, "B", KeyValueLower, "9")>>),
   JString("A=1"),
   JArray(<<JNumber(7)>>)}

DetailsExchanges ==
  FailedGets
    \cup {Response(StatusOK, JsonBody(DetailsDoc(21, raw))) : raw \in SampleRawEnvs}
    \cup {Response(StatusOK, JsonBody(JNull)), Response(StatusOK, JsonBody(JArray(<<>>)))}

PutExchanges ==
  FailedExchanges
    \cup {Response(StatusOK, TextBody(T_empty)),
          Response(204, TextBody(T_empty)),
          Response(StatusOK, BrokenBody(T_empty, T_unexpectedEOF))}

SampleEdgeStacks ==
  {EdgeStack(1, "stack1", 1700000000, Slice(<<1, 2>>)),
   EdgeStack(2, "stack2", 0, NilSlice)}

SdkListOutcomes ==
  {[stacks |-> l, err |-> NilErr] : l \in SeqsUpTo(SampleEdgeStacks, 2)}
    \cup {[stacks |-> <<>>, err |-> e] : e \in SdkErrors}

SdkFileOutcomes ==
  {[file |-> f, err |-> NilErr] : f \in {"", "services: edge"}}
    \cup {[file |-> "", err |-> e] : e \in SdkErrors}

SdkCreateOutcomes ==
  {[id |-> i, err |-> NilErr] : i \in {1, 7}}
    \cup {[id |-> 0, err |-> e] : e \in SdkErrors}

SdkUpdateOutcomes == {NilErr} \cup SdkErrors

Init ==
  /\ serverURL \in ServerURLs
  /\ token \in Tokens
  /\ op = [name |-> "none"]
  /\ calls = <<>>
  /\ ret = [err |-> NilErr]
  /\ MergeIdle
  /\ ClsIdle
  /\ ParseIdle
  /\ ToolIdle

\* No call has been made on the client yet.  The client has no field that a
\* call changes, so a later call starts from the same state as the first.
Idle == op.name = "none"

Finish(name, args, r) ==
  /\ op' = [name |-> name, args |-> args]
  /\ calls' = r.calls
  /\ ret' = r.ret
  /\ UNCHANGED <<serverURL, token>>
  /\ UNCHANGED mergeVars
  /\ UNCHANGED clsVars
  /\ UNCHANGED parseVars
  /\ UNCHANGED toolVars

DoGetStacks ==
  /\ Idle
  /\ \E xList \in ListExchanges, sdkList \in SdkListOutcomes :
       Finish("GetStacks", <<>>, GetStacks(serverURL, xList, sdkList))

DoGetStackFile ==
  /\ Idle
  /\ \E id \in StackIDs, xFile \in FileExchanges, sdkFile \in SdkFileOutcomes :
       Finish("GetStackFile", [id |-> id], GetStackFile(serverURL, id, xFile, sdkFile))

DoGetStackEnvNames ==
  /\ Idle
  /\ \E id \in StackIDs, xDetails \in DetailsExchanges :
       Finish("GetStackEnvNames", [id |-> id], GetStackEnvNames(serverURL, token, id, xDetails))

DoCreateStack ==
  /\ Idle
  /\ \E name \in StackNames, file \in ComposeFiles, groups \in GroupIdLists,
        sdkCreate \in SdkCreateOutcomes :
       Finish("CreateStack", [name |-> name, file |-> file, groups |-> groups],
              CreateStack(name, file, groups, sdkCreate))

DoUpdateStack ==
  /\ Idle
  /\ \E id \in StackIDs, file \in ComposeFiles, groups \in GroupIdLists,
        envOverrides \in OverrideLists, xDetails \in DetailsExchanges,
        xPut \in PutExchanges, sdkUpdate \in SdkUpdateOutcomes :
       Finish("UpdateStack",
              [id |-> id, file |-> file, groups |-> groups, envOverrides |-> envOverrides],
              UpdateStack(serverURL, token, id, file, groups, envOverrides,
                          xDetails, xPut, sdkUpdate))

Next ==
  \/ DoGetStacks
  \/ DoGetStackFile
  \/ DoGetStackEnvNames
  \/ DoCreateStack
  \/ DoUpdateStack

Spec == Init /\ [][Next]_vars

-----------------------------------------------------------------------------
(* Properties of the public operations *)

Configured == serverURL # "" /\ token # ""

Invoked(prim) == \E i \in DOMAIN calls : calls[i].prim = prim

RegularPrims ==
  {"listRegularStacksHTTP", "getRegularStackFileHTTP",
   "getRegularStackDetailsHTTP", "updateRegularStackHTTP"}

\* Call i is a call of the regular REST path that failed.
RegularFailure(i) == calls[i].prim \in RegularPrims /\ calls[i].out.err.k # "nil"

\* Call i is a regular call that failed with an error that is not fallback-worthy.
GenuineFailure(i) == RegularFailure(i) /\ ~shouldFallbackToEdge(calls[i].out.err)

\* The returned error wraps e.
ReturnsWrapped(e) == ret.err.k = "fmt" /\ ret.err.wraps = e

\* The details GET succeeded and the PUT failed with a fallback-worthy error.
PutFellBack ==
  /\ Len(calls) >= 2
  /\ calls[1].prim = "getRegularStackDetailsHTTP"
  /\ calls[1].out.err.k = "nil"
  /\ calls[2].prim = "updateRegularStackHTTP"
  /\ calls[2].out.err.k # "nil"
  /\ shouldFallbackToEdge(calls[2].out.err)

\* C1: an UpdateStack with overrides on a configured client whose GET succeeds
\* and whose PUT fails with a fallback-worthy error returns the "not supported
\* for edge stacks" error and never invokes UpdateEdgeStack.
C1_OverridesRejectedAfterPut ==
  (op.name = "UpdateStack" /\ Len(op.args.envOverrides) > 0 /\ Configured /\ PutFellBack)
    => /\ ret.err.k = "fmt"
       /\ ret.err.format = ErrOverridesEdge
       /\ ~Invoked("UpdateEdgeStack")

C1_Witness ==
  /\ op.name = "UpdateStack"
  /\ Len(op.args.envOverrides) > 0
  /\ Configured
  /\ PutFellBack
  /\ calls[2].out.err = apiStatusError(StatusNotFound, T_empty)
  /\ ret.err.format = ErrOverridesEdge

\* C2 as stated: every public operation ends after at most two remote calls.
C2_AtMostTwoCalls == Len(calls) <= 2

\* C2, amended: every public operation ends after at most two remote calls,
\* except UpdateStack, which makes a third one, UpdateEdgeStack, exactly when
\* the details GET succeeded, the PUT failed with a fallback-worthy error and
\* no overrides were given.
C2_CallBudget ==
  /\ op.name # "UpdateStack" => Len(calls) <= 2
  /\ op.name = "UpdateStack" =>
       /\ Len(calls) <= 3
       /\ Len(calls) = 3 <=>
            (Configured /\ PutFellBack /\ Len(op.args.envOverrides) = 0)
       /\ Len(calls) = 3 => calls[3].prim = "UpdateEdgeStack"

C2_Witness ==
  /\ op.name = "UpdateStack"
  /\ Len(calls) = 3
  /\ calls[3].prim = "UpdateEdgeStack"
  /\ ret.err.k = "nil"

\* C3 as stated: in every operation, a regular call that fails with an error
\* that is not fallback-worthy makes the operation return an error wrapping it.
C3_GenuineFailureReturned ==
  \A i \in DOMAIN calls : GenuineFailure(i) => ReturnsWrapped(calls[i].out.err)

\* C3, amended: in GetStackEnvNames and UpdateStack a regular call that fails
\* with an error that is not fallback-worthy ends the operation with an error
\* wrapping it.  In GetStacks and GetStackFile every regular failure is
\* followed by the edge call; the operation returns an error wrapping the
\* regular failure if the edge call fails too, and the edge result without
\* error if it succeeds.
C3_GenuineFailurePolicy ==
  \A i \in DOMAIN calls :
    /\ (op.name \in {"GetStackEnvNames", "UpdateStack"} /\ GenuineFailure(i))
         => /\ ReturnsWrapped(calls[i].out.err)
            /\ i = Len(calls)
    /\ (op.name \in {"GetStacks", "GetStackFile"} /\ RegularFailure(i))
         => /\ Len(calls) = 2
            /\ calls[2].prim \in {"ListEdgeStacks", "GetEdgeStackFile"}
            /\ calls[2].out.err.k # "nil" =>
                 ReturnsWrapped(calls[i].out.err) /\ ret.err.also = calls[2].out.err
            /\ calls[2].out.err.k = "nil" => ret.err.k = "nil"

\* A 403 on the PUT, with an unrelated body, comes back wrapped.
C3_Witness ==
  /\ op.name = "UpdateStack"
  /\ Len(calls) = 2
  /\ calls[2].out.err = apiStatusError(403, T_accessDenied)
  /\ GenuineFailure(2)
  /\ ReturnsWrapped(calls[2].out.err)

\* C10: when the regular list call succeeds with a non-empty list, GetStacks
\* returns the regular stacks converted one to one in the same order, each
\* with an empty, non-null EnvironmentGroupIds, and ListEdgeStacks is not
\* invoked.
C10_RegularListWins ==
  (/\ op.name = "GetStacks"
   /\ calls[1].prim = "listRegularStacksHTTP"
   /\ calls[1].out.err.k = "nil"
   /\ Len(calls[1].out.stacks) > 0)
    => /\ ret.err.k = "nil"
       /\ Len(ret.stacks) = Len(calls[1].out.stacks)
       /\ \A i \in DOMAIN ret.stacks :
            /\ ret.stacks[i].ID = calls[1].out.stacks[i].ID
            /\ ret.stacks[i].Name = calls[1].out.stacks[i].Name
            /\ ret.stacks[i].CreatedAt = FormatRFC3339(calls[1].out.stacks[i].CreationDate)
            /\ ret.stacks[i].EnvironmentGroupIds.null = FALSE
            /\ ret.stacks[i].EnvironmentGroupIds.ids = <<>>
       /\ ~Invoked("ListEdgeStacks")

\* Two different regular stacks come back in the order the server listed them.
C10_Witness ==
  /\ op.name = "GetStacks"
  /\ calls[1].out.err.k = "nil"
  /\ Len(calls[1].out.stacks) = 2
  /\ calls[1].out.stacks[1].ID = 10
  /\ calls[1].out.stacks[2].ID = 11
  /\ Len(ret.stacks) = 2
  /\ ret.stacks[1].ID = 10
  /\ ret.stacks[2].ID = 11
  /\ Len(calls) = 1

-----------------------------------------------------------------------------
(* Specification of mergeEnvOverrides as a pure function *)

InitMerge ==
  /\ existing \in SeqsUpTo(EnvVars, MaxExisting)
  /\ overrides \in SeqsUpTo(EnvVars, MaxOverrides)
  /\ merged = <<>>
  /\ mergePc = "input"
  /\ FacadeIdle
  /\ ClsIdle
  /\ ParseIdle
  /\ ToolIdle

MergeCall ==
  /\ mergePc = "input"
  /\ merged' = mergeEnvOverrides(existing, overrides)
  /\ mergePc' = "done"
  /\ UNCHANGED <<existing, overrides>>
  /\ UNCHANGED facadeVars
  /\ UNCHANGED clsVars
  /\ UNCHANGED parseVars
  /\ UNCHANGED toolVars

NextMerge == MergeCall

SpecMerge == InitMerge /\ [][NextMerge]_vars

-----------------------------------------------------------------------------
(* Specification of shouldFallbackToEdge as a pure function *)

StatusCodes == {204, 400, 403, 404, 500}

BodyTexts ==
  {T_empty, T_notFound, T_accessDenied, T_edgeStackMixed, T_edgeStackUpdateUpper,
   T_edgeStackLower, T_edgestackNoSpace, T_knowledge}

FailureTexts ==
  {T_connRefused, T_lookupEdgeHost, T_lookupApiHost, T_unexpectedEOF, T_invalidJson}

HelperPrefixes ==
  {PrefixMakeRequest, PrefixCreateRequest, PrefixReadBody, PrefixParseJson, PrefixParseEnv}

ApiStatusErrors == {apiStatusError(c, b) : c \in StatusCodes, b \in BodyTexts}

PlainErrors ==
  {OpaqueErr(t) : t \in FailureTexts}
    \cup {WrapErr(p, OpaqueErr(t)) : p \in HelperPrefixes, t \in FailureTexts}

ClassifierInputs ==
  ApiStatusErrors \cup PlainErrors \cup {WrapErr(PrefixMakeRequest, e) : e \in ApiStatusErrors}

InitCls ==
  /\ clsErr \in ClassifierInputs
  /\ clsResult = FALSE
  /\ clsPc = "input"
  /\ FacadeIdle
  /\ MergeIdle
  /\ ParseIdle
  /\ ToolIdle

ClassifyCall ==
  /\ clsPc = "input"
  /\ clsResult' = shouldFallbackToEdge(clsErr)
  /\ clsPc' = "done"
  /\ UNCHANGED clsErr
  /\ UNCHANGED facadeVars
  /\ UNCHANGED mergeVars
  /\ UNCHANGED parseVars
  /\ UNCHANGED toolVars

NextCls == ClassifyCall

SpecCls == InitCls /\ [][NextCls]_vars

-----------------------------------------------------------------------------
(* Properties of shouldFallbackToEdge *)

\* c and d are the same letter up to case, or the same character.
SameCharFold(c, d) ==
  \/ c = d
  \/ \E i \in DOMAIN UpperLetters :
       {c, d} = {UpperLetters[i], LowerLetters[i]}

\* text contains marker at some position, compared character by character
\* without regard to case.
HasMarkerAt(text, marker) ==
  \E i \in 1..Len(text) :
    /\ i + Len(marker) - 1 <= Len(text)
    /\ \A k \in 1..Len(marker) : SameCharFold(text[i + k - 1], marker[k])

MentionsEdge(text) ==
  HasMarkerAt(text, MarkerEdgeStack) \/ HasMarkerAt(text, MarkerEdgeStackUpdate)

ClsIsStatus == ErrorsAsApiStatus(clsErr).k = "api"

\* C9: shouldFallbackToEdge is true exactly for a status error with code 404,
\* a status error whose body mentions an edge marker in any case, or an error
\* whose string form mentions one; it is false for a 403 with unrelated body
\* and for a transport failure without a marker.
C9_ClassifierExact ==
  /\ shouldFallbackToEdge(apiStatusError(403, T_accessDenied)) = FALSE
  /\ shouldFallbackToEdge(WrapErr(PrefixMakeRequest, OpaqueErr(T_connRefused))) = FALSE
  /\ clsPc = "done" =>
       clsResult =
         \/ ClsIsStatus /\ ErrorsAsApiStatus(clsErr).statusCode = 404
         \/ ClsIsStatus /\ MentionsEdge(ErrorsAsApiStatus(clsErr).body)
         \/ MentionsEdge(ErrorString(clsErr))

\* A 403 whose body names an edge stack in mixed case is classified for fallback.
C9_Witness ==
  /\ clsPc = "done"
  /\ clsErr = apiStatusError(403, T_edgeStackMixed)
  /\ clsResult = TRUE

-----------------------------------------------------------------------------
(* Properties of mergeEnvOverrides *)

ExistingNames == {existing[i].Name : i \in DOMAIN existing}

OverrideNames == {overrides[i].Name : i \in DOMAIN overrides} \ {""}

NewOverrideNames == OverrideNames \ ExistingNames

FirstOverrideIndex(n) ==
  CHOOSE i \in DOMAIN overrides :
    overrides[i].Name = n /\ \A j \in DOMAIN overrides : overrides[j].Name = n => i <= j

LastOverrideValue(n) ==
  overrides[CHOOSE i \in DOMAIN overrides :
              overrides[i].Name = n /\ \A j \in DOMAIN overrides : overrides[j].Name = n => j <= i].Value

MergedPositions(n) == {j \in DOMAIN merged : merged[j].Name = n}

\* C4: the merged list has len(existing) entries plus one entry per distinct
\* non-empty override name that is not a name of existing.
C4_LengthLaw ==
  mergePc = "done" =>
    Len(merged) = Len(existing) + Cardinality(NewOverrideNames)

\* C5: every name of existing is still a name of the merged list, and an
\* existing entry whose name is not overridden is in the merged list with its
\* original value.
C5_ExistingKept ==
  mergePc = "done" =>
    /\ \A i \in DOMAIN existing : \E j \in DOMAIN merged : merged[j].Name = existing[i].Name
    /\ \A i \in DOMAIN existing :
         existing[i].Name \notin {overrides[k].Name : k \in DOMAIN overrides}
           => \E j \in DOMAIN merged : merged[j] = existing[i]

\* C6: a non-empty override name that is not in existing appears exactly once
\* in the merged list, after every entry derived from existing, in the order
\* of its first occurrence among the overrides, with the value of its last
\* occurrence.
C6_NewNamesAppended ==
  mergePc = "done" =>
    \A n \in NewOverrideNames :
      /\ Cardinality(MergedPositions(n)) = 1
      /\ \A j \in MergedPositions(n) :
           /\ merged[j].Value = LastOverrideValue(n)
           /\ \A k \in DOMAIN merged : merged[k].Name \in ExistingNames => k < j
           /\ \A m \in NewOverrideNames :
                FirstOverrideIndex(m) < FirstOverrideIndex(n)
                  => \E k \in MergedPositions(m) : k < j

\* Two new names, one of them repeated with two values, on top of a stored name.
C6_Witness ==
  /\ mergePc = "done"
  /\ Cardinality(NewOverrideNames) >= 2
  /\ ExistingNames \ {""} # {}
  /\ \E i, j \in DOMAIN overrides :
       /\ i < j
       /\ overrides[i].Name = overrides[j].Name
       /\ overrides[i].Name \in NewOverrideNames
       /\ overrides[i].Value # overrides[j].Value
  /\ Len(merged) = Len(existing) + 2

\* C7: the merged list starts with one entry per existing entry, at the same
\* position: the name with the last override value if the name is overridden,
\* the entry itself otherwise; merge([{A,1},{B,2}], [{B,9},{C,3}]) is
\* [{A,1},{B,9},{C,3}].
C7_WalkInPlace ==
  /\ mergeEnvOverrides(<<StackEnvVar("A", "1"), StackEnvVar("B", "2")>>,
                       <<StackEnvVar("B", "9"), StackEnvVar("C", "3")>>)
       = <<StackEnvVar("A", "1"), StackEnvVar("B", "9"), StackEnvVar("C", "3")>>
  /\ mergePc = "done" =>
       /\ Len(merged) >= Len(existing)
       /\ \A i \in DOMAIN existing :
            merged[i] = IF existing[i].Name \in OverrideNames
                        THEN StackEnvVar(existing[i].Name, LastOverrideValue(existing[i].Name))
                        ELSE existing[i]

\* C8: mergeEnvOverrides always yields a list of variables, and with no
\* overrides it yields existing itself.
C8_EmptyOverridesIdentity ==
  mergePc = "done" =>
    /\ merged \in Seq(EnvVars)
    /\ overrides = <<>> => merged = existing

\* No overrides, and a stored list with a blank name and a repeated name.
C8_Witness ==
  /\ mergePc = "done"
  /\ overrides = <<>>
  /\ \E i \in DOMAIN existing : existing[i].Name = ""
  /\ \E i, j \in DOMAIN existing : i < j /\ existing[i].Name = existing[j].Name
  /\ merged = existing


-----------------------------------------------------------------------------
(* Properties of the public operations: GetStacks and GetStackFile *)

\* Number of calls of primitive prim the operation made.
TimesInvoked(prim) == Cardinality({i \in DOMAIN calls : calls[i].prim = prim})

\* C11: when the regular list call of GetStacks fails (on any client, one
\* without server URL included) or returns no stack, ListEdgeStacks is invoked
\* exactly once, after it; if that succeeds GetStacks returns, without error,
\* the edge stacks converted one to one in the same order.
C11_EdgeListAfterRegular ==
  (/\ op.name = "GetStacks"
   /\ (calls[1].out.err.k # "nil" \/ Len(calls[1].out.stacks) = 0))
    => /\ Len(calls) = 2
       /\ calls[1].prim = "listRegularStacksHTTP"
       /\ calls[2].prim = "ListEdgeStacks"
       /\ TimesInvoked("ListEdgeStacks") = 1
       /\ calls[2].out.err.k = "nil" =>
            /\ ret.err.k = "nil"
            /\ Len(ret.stacks) = Len(calls[2].out.stacks)
            /\ \A i \in DOMAIN ret.stacks :
                 ret.stacks[i] = ConvertEdgeStackToStack(calls[2].out.stacks[i])

\* On a client without server URL whose request to the host "api" failed, two
\* different edge stacks come back in the order the SDK listed them.
C11_Witness ==
  /\ op.name = "GetStacks"
  /\ serverURL = ""
  /\ Len(calls) = 2
  /\ calls[1].out.err.k # "nil"
  /\ calls[2].out.err.k = "nil"
  /\ Len(calls[2].out.stacks) = 2
  /\ calls[2].out.stacks[1].ID = 1
  /\ calls[2].out.stacks[2].ID = 2
  /\ ret.err.k = "nil"
  /\ Len(ret.stacks) = 2
  /\ ret.stacks[1].Name = "stack1"
  /\ ret.stacks[2].Name = "stack2"

\* The returned error carries cause e, wrapped (%w) or printed (%v).
Names(e) == e.k # "nil" /\ ret.err.k = "fmt" /\ (ret.err.wraps = e \/ ret.err.also = e)

\* C12: when the edge call of GetStacks or GetStackFile fails, the operation
\* returns an error; the error names both the regular cause and the edge cause
\* exactly when the regular call failed too, and names the edge cause alone
\* when the regular call succeeded with an empty result.
C12_ErrorComposition ==
  (/\ op.name \in {"GetStacks", "GetStackFile"}
   /\ Len(calls) = 2
   /\ calls[2].out.err.k # "nil")
    => /\ ret.err.k = "fmt"
       /\ Names(calls[2].out.err)
       /\ (Names(calls[1].out.err) /\ Names(calls[2].out.err)) <=> calls[1].out.err.k # "nil"
       /\ calls[1].out.err.k = "nil" =>
            /\ ret.err.wraps = calls[2].out.err
            /\ ret.err.also = NilErr

\* Both paths of GetStackFile fail: a 500 from the server and a failure of the SDK.
C12_Witness ==
  /\ op.name = "GetStackFile"
  /\ Len(calls) = 2
  /\ calls[1].out.err.k # "nil"
  /\ calls[2].out.err = OpaqueErr(T_sdkFailed)
  /\ ret.err.k = "fmt"
  /\ ret.err.wraps = calls[1].out.err
  /\ ret.err.also = calls[2].out.err

\* C13: GetStackFile returns the content of the regular call when that call
\* succeeds with non-empty content, and then does not invoke GetEdgeStackFile;
\* otherwise it invokes GetEdgeStackFile exactly once with the same id and,
\* if that succeeds, returns its content without error.
C13_FileFallback ==
  op.name = "GetStackFile" =>
    /\ calls[1].prim = "getRegularStackFileHTTP"
    /\ calls[1].args.id = op.args.id
    /\ IF calls[1].out.err.k = "nil" /\ calls[1].out.file # ""
       THEN /\ Len(calls) = 1
            /\ ~Invoked("GetEdgeStackFile")
            /\ ret.err.k = "nil"
            /\ ret.file = calls[1].out.file
       ELSE /\ Len(calls) = 2
            /\ calls[2].prim = "GetEdgeStackFile"
            /\ TimesInvoked("GetEdgeStackFile") = 1
            /\ calls[2].args.id = op.args.id
            /\ calls[2].out.err.k = "nil" =>
                 ret.err.k = "nil" /\ ret.file = calls[2].out.file

\* The regular call succeeds with empty content and the edge file is returned.
C13_Witness ==
  /\ op.name = "GetStackFile"
  /\ Len(calls) = 2
  /\ calls[1].out.err.k = "nil"
  /\ calls[1].out.file = ""
  /\ calls[2].out.err.k = "nil"
  /\ calls[2].out.file = "services: edge"
  /\ ret.err.k = "nil"
  /\ ret.file = "services: edge"

-----------------------------------------------------------------------------
(* Properties of the public operations: UpdateStack and GetStackEnvNames *)

\* An error the classifier is meant to send to the edge path: a status error
\* with code 404, a status error whose body mentions an edge marker in any
\* case, or an error whose text mentions one.
FallbackWorthy(e) ==
  LET a == ErrorsAsApiStatus(e)
  IN  \/ a.k = "api" /\ a.statusCode = StatusNotFound
      \/ a.k = "api" /\ MentionsEdge(a.body)
      \/ MentionsEdge(ErrorString(e))

EdgePrims ==
  {"ListEdgeStacks", "GetEdgeStackFile", "CreateEdgeStack", "UpdateEdgeStack"}

\* Call i is the UpdateEdgeStack call with the arguments UpdateStack was given.
EdgeUpdateAsGiven(i) ==
  /\ calls[i].prim = "UpdateEdgeStack"
  /\ calls[i].args.id = op.args.id
  /\ calls[i].args.file = op.args.file
  /\ calls[i].args.groups = op.args.groups

\* C14: on a configured client, after a successful details GET the PUT is the
\* next call; when it succeeds too it carried the endpoint ID of the GET, the
\* caller's file, Prune = false, PullImage = false and the stored env merged
\* with the overrides, UpdateStack returns success, and UpdateEdgeStack is not
\* invoked.
C14_RegularUpdate ==
  /\ (op.name = "UpdateStack" /\ Configured /\ calls[1].out.err.k = "nil")
       => /\ calls[1].prim = "getRegularStackDetailsHTTP"
          /\ calls[1].args.id = op.args.id
          /\ Len(calls) >= 2
          /\ calls[2].prim = "updateRegularStackHTTP"
  /\ (/\ op.name = "UpdateStack"
      /\ Configured
      /\ calls[1].out.err.k = "nil"
      /\ calls[2].out.err.k = "nil")
       => /\ Len(calls) = 2
          /\ calls[2].args.id = op.args.id
          /\ calls[2].args.endpointId = calls[1].out.endpointId
          /\ calls[2].args.payload.StackFileContent = op.args.file
          /\ calls[2].args.payload.Prune = FALSE
          /\ calls[2].args.payload.PullImage = FALSE
          /\ calls[2].args.payload.Env =
               mergeEnvOverrides(calls[1].out.env, op.args.envOverrides)
          /\ ret.err.k = "nil"
          /\ ~Invoked("UpdateEdgeStack")

\* The stored A=1, B=1 and the overrides B=9, C=1 are sent as A=1, B=9, C=1.
C14_Witness ==
  /\ op.name = "UpdateStack"
  /\ Configured
  /\ Len(calls) = 2
  /\ calls[1].out.err.k = "nil"
  /\ calls[1].out.endpointId = 21
  /\ calls[1].out.env = <<StackEnvVar("A", "1"), StackEnvVar("B", "1")>>
  /\ calls[2].out.err.k = "nil"
  /\ calls[2].args.endpointId = 21
  /\ calls[2].args.payload.Env =
       <<StackEnvVar("A", "1"), StackEnvVar("B", "9"), StackEnvVar("C", "1")>>
  /\ ret.err.k = "nil"

\* C15: on a configured client, when the details GET fails with a
\* fallback-worthy error (a 404 is one), UpdateStack issues no PUT; without
\* overrides it invokes UpdateEdgeStack exactly once with the given id, file
\* and group IDs and succeeds if that call succeeds; with overrides it returns
\* the "not supported for edge stacks" error and does not invoke
\* UpdateEdgeStack.
C15_DetailsFallback ==
  /\ FallbackWorthy(apiStatusError(StatusNotFound, T_empty))
  /\ (/\ op.name = "UpdateStack"
      /\ Configured
      /\ calls[1].out.err.k # "nil"
      /\ FallbackWorthy(calls[1].out.err))
       => /\ ~Invoked("updateRegularStackHTTP")
          /\ IF Len(op.args.envOverrides) = 0
             THEN /\ Len(calls) = 2
                  /\ EdgeUpdateAsGiven(2)
                  /\ TimesInvoked("UpdateEdgeStack") = 1
                  /\ calls[2].out.err.k = "nil" => ret.err.k = "nil"
             ELSE /\ Len(calls) = 1
                  /\ ~Invoked("UpdateEdgeStack")
                  /\ ret.err.k = "fmt"
                  /\ ret.err.format = ErrOverridesEdge

\* A 404 on the details GET, no overrides: the edge update is made and succeeds.
C15_Witness ==
  /\ op.name = "UpdateStack"
  /\ Configured
  /\ Len(op.args.envOverrides) = 0
  /\ op.args.groups = <<1, 2>>
  /\ Len(calls) = 2
  /\ calls[1].out.err = apiStatusError(StatusNotFound, T_empty)
  /\ EdgeUpdateAsGiven(2)
  /\ calls[2].out.err.k = "nil"
  /\ ret.err.k = "nil"

\* C16: on a configured client, a details GET or update PUT of UpdateStack
\* that fails with an error that is not fallback-worthy (a 403 with an
\* unrelated body is not) ends the operation: UpdateStack returns an error
\* wrapping that failure and UpdateEdgeStack is never invoked.
C16_GenuineUpdateFailure ==
  /\ ~FallbackWorthy(apiStatusError(403, T_accessDenied))
  /\ (op.name = "UpdateStack" /\ Configured) =>
       \A i \in DOMAIN calls :
         (/\ calls[i].prim \in {"getRegularStackDetailsHTTP", "updateRegularStackHTTP"}
          /\ calls[i].out.err.k # "nil"
          /\ ~FallbackWorthy(calls[i].out.err))
           => /\ i = Len(calls)
              /\ ReturnsWrapped(calls[i].out.err)
              /\ ~Invoked("UpdateEdgeStack")

\* The details GET answers 200 with a body that is not JSON.
C16_Witness ==
  /\ op.name = "UpdateStack"
  /\ Configured
  /\ Len(calls) = 1
  /\ calls[1].out.err.k = "wrap"
  /\ calls[1].out.err.prefix = PrefixParseJson
  /\ ~FallbackWorthy(calls[1].out.err)
  /\ ReturnsWrapped(calls[1].out.err)

\* C17: without server URL or without token, an UpdateStack without overrides
\* issues no REST call and invokes UpdateEdgeStack exactly once with the given
\* id, file and group IDs; it succeeds exactly when that call succeeds.
C17_UnconfiguredDelegates ==
  (op.name = "UpdateStack" /\ ~Configured /\ Len(op.args.envOverrides) = 0)
    => /\ Len(calls) = 1
       /\ EdgeUpdateAsGiven(1)
       /\ \A i \in DOMAIN calls : calls[i].prim \notin RegularPrims
       /\ ret.err.k = "nil" <=> calls[1].out.err.k = "nil"
       /\ ret.err.k # "nil" => ReturnsWrapped(calls[1].out.err)

\* A server URL without token: the edge update is made directly and succeeds.
C17_Witness ==
  /\ op.name = "UpdateStack"
  /\ serverURL # ""
  /\ token = ""
  /\ Len(op.args.envOverrides) = 0
  /\ op.args.groups = <<1, 2>>
  /\ Len(calls) = 1
  /\ EdgeUpdateAsGiven(1)
  /\ ret.err.k = "nil"

\* C18: without server URL or without token, an UpdateStack with overrides
\* returns the configuration error and makes no remote call.
C18_UnconfiguredRejectsOverrides ==
  (op.name = "UpdateStack" /\ ~Configured /\ Len(op.args.envOverrides) > 0)
    => /\ calls = <<>>
       /\ ret.err.k = "fmt"
       /\ ret.err.format = ErrOverridesNeedConfig

C18_Witness ==
  /\ op.name = "UpdateStack"
  /\ serverURL # ""
  /\ token = ""
  /\ Len(op.args.envOverrides) > 0
  /\ calls = <<>>
  /\ ret.err.format = ErrOverridesNeedConfig

\* C19: GetStackEnvNames never invokes an edge primitive; on a configured
\* client, when the details GET fails with a fallback-worthy error it returns
\* the "not available for edge stacks" error.
C19_EnvNamesNoEdge ==
  op.name = "GetStackEnvNames" =>
    /\ \A i \in DOMAIN calls : calls[i].prim \notin EdgePrims
    /\ (Configured /\ calls[1].out.err.k # "nil" /\ FallbackWorthy(calls[1].out.err))
         => /\ Len(calls) = 1
            /\ ret.err.k = "fmt"
            /\ ret.err.format = ErrStackEnvNamesEdge

\* The request fails in transport with a text that mentions an edge stack.
C19_Witness ==
  /\ op.name = "GetStackEnvNames"
  /\ Configured
  /\ Len(calls) = 1
  /\ calls[1].out.err = WrapErr(PrefixMakeRequest, OpaqueErr(T_lookupEdgeHost))
  /\ ret.err.format = ErrStackEnvNamesEdge

\* C20: GetStackEnvNames returns the configuration error without any remote
\* call whenever the server URL or the token is empty.
C20_EnvNamesNeedConfig ==
  (op.name = "GetStackEnvNames" /\ (serverURL = "" \/ token = ""))
    => /\ calls = <<>>
       /\ ret.err.k = "fmt"
       /\ ret.err.format = ErrStackEnvNamesNeedConfig

C20_Witness ==
  /\ op.name = "GetStackEnvNames"
  /\ serverURL # ""
  /\ token = ""
  /\ calls = <<>>
  /\ ret.err.format = ErrStackEnvNamesNeedConfig

-----------------------------------------------------------------------------
(* Properties of the public operations: names, creation, no retry *)

\* Position of the first entry of env named n.
FirstNamed(env, n) == CHOOSE i \in DOMAIN env : env[i].Name = n /\ \A k \in 1..(i - 1) : env[k].Name # n

\* C21: after a successful details GET, GetStackEnvNames returns exactly the
\* non-empty names of the parsed environment, each once, in the order of
\* their first occurrence.
C21_EnvNamesDistinctInOrder ==
  (op.name = "GetStackEnvNames" /\ Len(calls) = 1 /\ calls[1].out.err.k = "nil")
    => LET env == calls[1].out.env
       IN  /\ ret.err.k = "nil"
           /\ \A i \in DOMAIN ret.names : ret.names[i] # ""
           /\ \A i, j \in DOMAIN ret.names : i # j => ret.names[i] # ret.names[j]
           /\ Range(ret.names) = {env[i].Name : i \in DOMAIN env} \ {""}
           /\ \A i, j \in DOMAIN ret.names :
                i < j => FirstNamed(env, ret.names[i]) < FirstNamed(env, ret.names[j])

\* The stored names B, "", A, B come back as B, A.
C21_Witness ==
  /\ op.name = "GetStackEnvNames"
  /\ Len(calls) = 1
  /\ calls[1].out.err.k = "nil"
  /\ Len(calls[1].out.env) = 4
  /\ calls[1].out.env[2].Name = ""
  /\ calls[1].out.env[4].Name = "B"
  /\ ret.names = <<"B", "A">>

\* C22: CreateStack, configured or not, invokes CreateEdgeStack exactly once
\* with the given name, file and group IDs and makes no other call; it returns
\* the created ID without error when the primitive succeeds, and ID 0 with an
\* error wrapping the primitive's when it fails.
C22_CreateDelegates ==
  op.name = "CreateStack" =>
    /\ Len(calls) = 1
    /\ calls[1].prim = "CreateEdgeStack"
    /\ calls[1].args.name = op.args.name
    /\ calls[1].args.file = op.args.file
    /\ calls[1].args.groups = op.args.groups
    /\ IF calls[1].out.err.k = "nil"
       THEN ret.err.k = "nil" /\ ret.id = calls[1].out.id
       ELSE ret.id = 0 /\ ReturnsWrapped(calls[1].out.err)

\* On a configured client the stack is still created through the edge SDK.
C22_Witness ==
  /\ op.name = "CreateStack"
  /\ Configured
  /\ op.args.groups = <<1, 2>>
  /\ Len(calls) = 1
  /\ calls[1].prim = "CreateEdgeStack"
  /\ calls[1].out.id = 7
  /\ ret.id = 7
  /\ ret.err.k = "nil"

\* C25: within one operation every remote primitive is invoked at most once,
\* and an edge primitive is invoked only after every regular call the
\* operation makes.
C25_NoRetry ==
  /\ \A prim \in RegularPrims \cup EdgePrims : TimesInvoked(prim) <= 1
  /\ \A i, j \in DOMAIN calls :
       (calls[i].prim \in EdgePrims /\ calls[j].prim \in RegularPrims) => j < i
  /\ \A i \in DOMAIN calls : calls[i].prim \in RegularPrims \cup EdgePrims

\* GET, PUT and the edge update all fail: three calls, none repeated.
C25_Witness ==
  /\ op.name = "UpdateStack"
  /\ Len(calls) = 3
  /\ calls[1].prim = "getRegularStackDetailsHTTP"
  /\ calls[2].prim = "updateRegularStackHTTP"
  /\ calls[3].prim = "UpdateEdgeStack"
  /\ calls[3].out.err.k # "nil"
  /\ ret.err.k = "fmt"

-----------------------------------------------------------------------------
(* Specification of parseStackEnv as a pure function *)

ParseNames  == {"", "X"}
ParseValues == {"", "y"}

\* The environment lists a server may hold.
LogicalLists ==
  SeqsUpTo({StackEnvVar(n, v) : n \in ParseNames, v \in ParseValues}, MaxEntries)

\* A list written as a JSON array of objects with the given two keys.
EncodeEnv(list, nameKey, valueKey) ==
  JArray([i \in DOMAIN list |->
            EnvObject(nameKey, list[i].Name, valueKey, list[i].Value)] \o <<>>)

KeyShapes ==
  {<<KeyNameLower, KeyValueLower>>, <<KeyNameAlt, KeyValueAlt>>,
   <<KeyNameUpper, KeyValueAlt>>, <<KeyOther, KeyValueLower>>}

\* What an element of the array may be.
ParseItems ==
  {EnvObject(ks[1], n, ks[2], v) : ks \in KeyShapes, n \in ParseNames, v \in ParseValues}
    \cup {JObject(<<>>), JNull, JNumber(7), JString("X=y"),
          JObject(<< <<KeyNameLower, JNumber(7)>> >>)}

ParseInputs ==
  {JArray(items) : items \in SeqsUpTo(ParseItems, MaxEntries)}
    \cup {JAbsent, JNull, JString("X=y"), JNumber(7), JObject(<<>>)}

InitParse ==
  /\ parseRaw \in ParseInputs
  /\ parseOut = [env |-> <<>>, err |-> NilErr]
  /\ parsePc = "input"
  /\ FacadeIdle
  /\ MergeIdle
  /\ ClsIdle
  /\ ToolIdle

ParseCall ==
  /\ parsePc = "input"
  /\ parseOut' = parseStackEnv(parseRaw)
  /\ parsePc' = "done"
  /\ UNCHANGED parseRaw
  /\ UNCHANGED facadeVars
  /\ UNCHANGED mergeVars
  /\ UNCHANGED clsVars
  /\ UNCHANGED toolVars

NextParse == ParseCall

SpecParse == InitParse /\ [][NextParse]_vars

-----------------------------------------------------------------------------
(* Properties of parseStackEnv *)

\* C23: a list written in either known encoding, with the keys of
\* models.StackEnvVar or with the keys Name and Value, is parsed without error
\* to that list, entry by entry in the same order; so both encodings of one
\* list are parsed to the same list.
C23_EncodingsAgree ==
  parsePc = "done" =>
    \A l \in LogicalLists :
      parseRaw \in {EncodeEnv(l, StackEnvVarNameKey, StackEnvVarValueKey),
                    EncodeEnv(l, stackEnvEntryAltNameKey, stackEnvEntryAltValueKey)}
        => /\ parseOut.err.k = "nil"
           /\ Len(parseOut.env) = Len(l)
           /\ \A i \in DOMAIN l : parseOut.env[i] = l[i]

\* [{"Name":"X","Value":"y"}] is parsed to [(X, y)].
C23_Witness ==
  /\ parsePc = "done"
  /\ parseRaw = EncodeEnv(<<StackEnvVar("X", "y")>>, KeyNameAlt, KeyValueAlt)
  /\ parseOut.err.k = "nil"
  /\ parseOut.env = <<StackEnvVar("X", "y")>>

\* Every entry of list has an empty Name and an empty Value.
AllBlank(list) == \A i \in DOMAIN list : list[i].Name = "" /\ list[i].Value = ""

\* C24: null or empty input gives an empty result without error; a primary
\* decode with no entry is accepted as empty; when the primary decode yields
\* entries that are all blank the alternate shape is tried and the list
\* returned comes from a decode that succeeded and is not all blank; when both
\* decodes fail the result is a parse error.
C24_DecisionRule ==
  parsePc = "done" =>
    LET primary == DecodeEnvList(parseRaw, StackEnvVarNameKey, StackEnvVarValueKey)
        alt     == DecodeEnvList(parseRaw, stackEnvEntryAltNameKey, stackEnvEntryAltValueKey)
        given   == parseRaw.j \notin {"absent", "null"}
    IN  /\ ~given => parseOut.err.k = "nil" /\ parseOut.env = <<>>
        /\ (given /\ primary.ok /\ Len(primary.list) = 0)
             => parseOut.err.k = "nil" /\ parseOut.env = <<>>
        /\ (given /\ primary.ok /\ Len(primary.list) > 0 /\ AllBlank(primary.list))
             => \/ parseOut.err.k # "nil"
                \/ /\ \/ parseOut.env = primary.list
                      \/ alt.ok /\ parseOut.env = alt.list
                   /\ ~AllBlank(parseOut.env)
        /\ (given /\ ~primary.ok /\ ~alt.ok)
             => /\ parseOut.err.k = "wrap"
                /\ parseOut.err.prefix = PrefixParseEnv

-----------------------------------------------------------------------------
(* The MCP tool handlers of internal/mcp/stack.go *)
(* A tool argument is a JSON value, JAbsent when the request does not carry  *)
(* it.  A handler takes the arguments and what the client answers to the one *)
(* call it may make; it yields that call, if made, and the tool result.      *)

ToolListStacks       == "ToolListStacks"
ToolGetStackFile     == "ToolGetStackFile"
ToolGetStackEnvNames == "ToolGetStackEnvNames"
ToolCreateStack      == "ToolCreateStack"
ToolUpdateStack      == "ToolUpdateStack"

\* mcp.NewToolResultErrorFromErr(message, err) and mcp.NewToolResultText(text)
ToolResultErrorFromErr(message, err) == [isError |-> TRUE, text |-> message, err |-> err]
ToolResultText(text) == [isError |-> FALSE, text |-> text, err |-> NilErr]

NoCliCall == [method |-> "none"]
CliCall(method, args) == [method |-> method, args |-> args]

\* The error of a parameter parser or of parseStackEnvOverrides.
ParamErr(format) == FmtErr(format, NilErr, NilErr)

\* parser.GetInt(name, true), parser.GetString(name, true),
\* parser.GetArrayOfIntegers(name, true): the value of a required parameter
\* of the right JSON type, an error otherwise.
GetInt(v) ==
  IF v.j = "number" THEN [val |-> v.n, err |-> NilErr]
  ELSE [val |-> 0, err |-> ParamErr("invalid integer parameter")]

GetString(v) ==
  IF v.j = "string" THEN [val |-> v.s, err |-> NilErr]
  ELSE [val |-> "", err |-> ParamErr("invalid string parameter")]

GetArrayOfIntegers(v) ==
  IF v.j = "array" /\ \A i \in DOMAIN v.items : v.items[i].j = "number"
  THEN [val |-> [i \in DOMAIN v.items |-> v.items[i].n] \o <<>>, err |-> NilErr]
  ELSE [val |-> <<>>, err |-> ParamErr("invalid array parameter")]

\* parser.GetArrayOfObjects(name, false): the elements of an optional array
\* parameter as they are, no element when the parameter is absent.
GetArrayOfObjects(v) ==
  IF v.j \in {"absent", "null"} THEN [val |-> <<>>, err |-> NilErr]
  ELSE IF v.j = "array" THEN [val |-> v.items, err |-> NilErr]
  ELSE [val |-> <<>>, err |-> ParamErr("invalid array parameter")]

\* entryMap[key]: the value of the member with exactly that key, JAbsent when
\* there is none.
RECURSIVE MapIndex(_, _, _)
MapIndex(members, key, i) ==
  IF i = 0 THEN JAbsent
  ELSE IF members[i][1] = key THEN members[i][2]
  ELSE MapIndex(members, key, i - 1)

\* Variant of the loop of parseStackEnvOverrides that accepts an empty name.
RECURSIVE parseStackEnvOverridesLoopAllowingEmptyName(_, _, _)
parseStackEnvOverridesLoopAllowingEmptyName(entries, i, acc) ==
  IF i > Len(entries) THEN [val |-> acc, err |-> NilErr]
  ELSE IF entries[i].j # "object"
       THEN [val |-> <<>>, err |-> ParamErr("invalid env override: %v")]
  ELSE LET name  == MapIndex(entries[i].members, KeyNameLower, Len(entries[i].members))
           value == MapIndex(entries[i].members, KeyValueLower, Len(entries[i].members))
       IN  IF name.j # "string"
           THEN [val |-> <<>>, err |-> ParamErr("invalid env name: %v")]
           ELSE IF value.j # "string"
                THEN [val |-> <<>>, err |-> ParamErr("invalid env value: %v")]
           ELSE parseStackEnvOverridesLoopAllowingEmptyName(entries, i + 1,
                  Append(acc, StackEnvVar(name.s, value.s)))

\* for _, entry := range entries { ... } of parseStackEnvOverrides
RECURSIVE parseStackEnvOverridesLoop(_, _, _)
parseStackEnvOverridesLoop(entries, i, acc) ==
  IF i > Len(entries) THEN [val |-> acc, err |-> NilErr]
  ELSE IF entries[i].j # "object"
       THEN [val |-> <<>>, err |-> ParamErr("invalid env override: %v")]
  ELSE LET name  == MapIndex(entries[i].members, KeyNameLower, Len(entries[i].members))
           value == MapIndex(entries[i].members, KeyValueLower, Len(entries[i].members))
       IN  IF name.j # "string" \/ name.s = ""
           THEN [val |-> <<>>, err |-> ParamErr("invalid env name: %v")]
           ELSE IF value.j # "string"
                THEN [val |-> <<>>, err |-> ParamErr("invalid env value: %v")]
           ELSE parseStackEnvOverridesLoop(entries, i + 1,
                  Append(acc, StackEnvVar(name.s, value.s)))

parseStackEnvOverrides(entries) ==
  IF Len(entries) = 0 THEN [val |-> <<>>, err |-> NilErr]
  ELSE parseStackEnvOverridesLoop(entries, 1, <<>>)

\* json.Marshal of a value of this package's result types, which cannot fail.
JsonText(value) == [json |-> value]

HandleGetStacks(args, out) ==
  [cliCall |-> CliCall("GetStacks", <<>>),
   result  |-> IF out.err.k # "nil"
               THEN ToolResultErrorFromErr("failed to get stacks", out.err)
               ELSE ToolResultText(JsonText(out.stacks))]

HandleGetStackFile(args, out) ==
  LET id == GetInt(args.id) IN
  IF id.err.k # "nil"
  THEN [cliCall |-> NoCliCall, result |-> ToolResultErrorFromErr("invalid id parameter", id.err)]
  ELSE [cliCall |-> CliCall("GetStackFile", [id |-> id.val]),
        result  |-> IF out.err.k # "nil"
                    THEN ToolResultErrorFromErr("failed to get stack file", out.err)
                    ELSE ToolResultText(out.file)]

HandleGetStackEnvNames(args, out) ==
  LET id == GetInt(args.id) IN
  IF id.err.k # "nil"
  THEN [cliCall |-> NoCliCall, result |-> ToolResultErrorFromErr("invalid id parameter", id.err)]
  ELSE [cliCall |-> CliCall("GetStackEnvNames", [id |-> id.val]),
        result  |-> IF out.err.k # "nil"
                    THEN ToolResultErrorFromErr("failed to get stack env names", out.err)
                    ELSE ToolResultText(JsonText(out.names))]

HandleCreateStack(args, out) ==
  LET name   == GetString(args.name)
      file   == GetString(args.file)
      groups == GetArrayOfIntegers(args.environmentGroupIds)
  IN
  IF name.err.k # "nil"
  THEN [cliCall |-> NoCliCall, result |-> ToolResultErrorFromErr("invalid name parameter", name.err)]
  ELSE IF file.err.k # "nil"
  THEN [cliCall |-> NoCliCall, result |-> ToolResultErrorFromErr("invalid file parameter", file.err)]
  ELSE IF groups.err.k # "nil"
  THEN [cliCall |-> NoCliCall,
        result  |-> ToolResultErrorFromErr("invalid environmentGroupIds parameter", groups.err)]
  ELSE [cliCall |-> CliCall("CreateStack",
                            [name |-> name.val, file |-> file.val, groups |-> groups.val]),
        result  |-> IF out.err.k # "nil"
                    THEN ToolResultErrorFromErr("error creating stack", out.err)
                    ELSE ToolResultText(<<"Stack created successfully with ID: ", out.id>>)]

HandleUpdateStack(args, out) ==
  LET id     == GetInt(args.id)
      file   == GetString(args.file)
      groups == GetArrayOfIntegers(args.environmentGroupIds)
      envOverridesRaw == GetArrayOfObjects(args.envOverrides)
      envOverrides    == parseStackEnvOverrides(envOverridesRaw.val)
  IN
  IF id.err.k # "nil"
  THEN [cliCall |-> NoCliCall, result |-> ToolResultErrorFromErr("invalid id parameter", id.err)]
  ELSE IF file.err.k # "nil"
  THEN [cliCall |-> NoCliCall, result |-> ToolResultErrorFromErr("invalid file parameter", file.err)]
  ELSE IF groups.err.k # "nil"
  THEN [cliCall |-> NoCliCall,
        result  |-> ToolResultErrorFromErr("invalid environmentGroupIds parameter", groups.err)]
  ELSE IF envOverridesRaw.err.k # "nil"
  THEN [cliCall |-> NoCliCall,
        result  |-> ToolResultErrorFromErr("invalid envOverrides parameter", envOverridesRaw.err)]
  ELSE IF envOverrides.err.k # "nil"
  THEN [cliCall |-> NoCliCall,
        result  |-> ToolResultErrorFromErr("invalid envOverrides parameter", envOverrides.err)]
  ELSE [cliCall |-> CliCall("UpdateStack",
                            [id |-> id.val, file |-> file.val, groups |-> groups.val,
                             envOverrides |-> envOverrides.val]),
        result  |-> IF out.err.k # "nil"
                    THEN ToolResultErrorFromErr("failed to update stack", out.err)
                    ELSE ToolResultText("Stack updated successfully")]

\* s.addToolIfExists(name, handler): registers the handler when the server
\* holds a definition of the tool.
addToolIfExists(reg, defined, name) == IF name \in defined THEN reg \cup {name} ELSE reg

\* Variant of AddStackFeatures that registers all five tools whatever readOnly is.
AddStackFeaturesIgnoringReadOnly(ro, defined, reg) ==
  addToolIfExists(
    addToolIfExists(
      addToolIfExists(
        addToolIfExists(
          addToolIfExists(reg, defined, ToolListStacks),
          defined, ToolGetStackFile),
        defined, ToolGetStackEnvNames),
      defined, ToolCreateStack),
    defined, ToolUpdateStack)

AddStackFeatures(ro, defined, reg) ==
  LET readers == addToolIfExists(
                   addToolIfExists(
                     addToolIfExists(reg, defined, ToolListStacks),
                     defined, ToolGetStackFile),
                   defined, ToolGetStackEnvNames)
  IN  IF ~ro
      THEN addToolIfExists(addToolIfExists(readers, defined, ToolCreateStack),
                           defined, ToolUpdateStack)
      ELSE readers

-----------------------------------------------------------------------------
(* The MCP server: registration, then any number of tool calls *)

AllTools ==
  {ToolListStacks, ToolGetStackFile, ToolGetStackEnvNames, ToolCreateStack, ToolUpdateStack}

\* The tool definitions a server may have loaded.
DefinedToolSets ==
  {AllTools, AllTools \ {ToolGetStackEnvNames}, {ToolListStacks, ToolUpdateStack}}

ToolIds    == {JNumber(42), JAbsent}
ToolFiles  == {JString("services: web"), JAbsent}
ToolGroups == {JArray(<<JNumber(1), JNumber(2)>>), JAbsent}
ToolStackNames == {JString("test-stack"), JAbsent}

OverrideEntry(name, value) ==
  JObject(<< <<KeyNameLower, name>>, <<KeyValueLower, value>> >>)

\* Values of the envOverrides argument.
SampleOverrideArgs ==
  {JAbsent, JNull, JString("A=1"), JArray(<<>>),
   JArray(<<OverrideEntry(JString("A"), JString("1"))>>),
   JArray(<<OverrideEntry(JString("A"), JString(""))>>),
   JArray(<<OverrideEntry(JString("A"), JString("1")),
            OverrideEntry(JString("B"), JString("9"))>>),
   JArray(<<OverrideEntry(JString("A"), JString("1")),
            OverrideEntry(JString("A"), JString("9"))>>),
   JArray(<<JString("A=1")>>),
   JArray(<<OverrideEntry(JString(""), JString("1"))>>),
   JArray(<<OverrideEntry(JNumber(7), JString("1"))>>),
   JArray(<<OverrideEntry(JString("A"), JNumber(7))>>),
   JArray(<<JObject(<< <<KeyValueLower, JString("1")>> >>)>>),
   JArray(<<JObject(<< <<KeyNameLower, JString("A")>> >>)>>),
   JArray(<<EnvObject(KeyNameAlt, "A", KeyValueAlt, "1")>>),
   JArray(<<OverrideEntry(JString("A"), JString("1")),
            OverrideEntry(JString(""), JString("9"))>>)}

T_clientFailed == <<"c","l","i","e","n","t"," ","f","a","i","l","e","d">>

CliError == OpaqueErr(T_clientFailed)

CliStacksOutcomes ==
  {[stacks |-> <<>>, err |-> NilErr],
   [stacks |-> <<Stack(1, "stack1", FormatRFC3339(0), Slice(<<1, 2>>))>>, err |-> NilErr],
   [stacks |-> <<>>, err |-> CliError]}

CliFileOutcomes ==
  {[file |-> "services: web", err |-> NilErr], [file |-> "", err |-> CliError]}

CliNamesOutcomes ==
  {[names |-> <<"A", "B">>, err |-> NilErr], [names |-> <<>>, err |-> CliError]}

CliCreateOutcomes == {[id |-> 7, err |-> NilErr], [id |-> 0, err |-> CliError]}

CliUpdateOutcomes == {[err |-> NilErr], [err |-> CliError]}

InitTool ==
  /\ readOnly \in BOOLEAN
  /\ definedTools \in DefinedToolSets
  /\ registered = {}
  /\ request = [tool |-> "none"]
  /\ cliCall = NoCliCall
  /\ result = [isError |-> FALSE]
  /\ srvPc = "new"
  /\ FacadeIdle
  /\ MergeIdle
  /\ ClsIdle
  /\ ParseIdle

DoAddStackFeatures ==
  /\ srvPc = "new"
  /\ registered' = AddStackFeatures(readOnly, definedTools, registered)
  /\ srvPc' = "serving"
  /\ UNCHANGED <<readOnly, definedTools, request, cliCall, result>>
  /\ UNCHANGED <<facadeVars, mergeVars, clsVars, parseVars>>

\* The server dispatches a call to the handler registered under the tool's name.
Dispatches(tool) == srvPc = "serving" /\ tool \in registered

Serve(tool, args, h) ==
  /\ request' = [tool |-> tool, args |-> args]
  /\ cliCall' = h.cliCall
  /\ result' = h.result
  /\ UNCHANGED <<readOnly, definedTools, registered, srvPc>>
  /\ UNCHANGED <<facadeVars, mergeVars, clsVars, parseVars>>

ServeGetStacks ==
  /\ Dispatches(ToolListStacks)
  /\ \E out \in CliStacksOutcomes :
       Serve(ToolListStacks, <<>>, HandleGetStacks(<<>>, out))

ServeGetStackFile ==
  /\ Dispatches(ToolGetStackFile)
  /\ \E id \in ToolIds, out \in CliFileOutcomes :
       Serve(ToolGetStackFile, [id |-> id], HandleGetStackFile([id |-> id], out))

ServeGetStackEnvNames ==
  /\ Dispatches(ToolGetStackEnvNames)
  /\ \E id \in ToolIds, out \in CliNamesOutcomes :
       Serve(ToolGetStackEnvNames, [id |-> id], HandleGetStackEnvNames([id |-> id], out))

ServeCreateStack ==
  /\ Dispatches(ToolCreateStack)
  /\ \E name \in ToolStackNames, file \in ToolFiles, groups \in ToolGroups,
        out \in CliCreateOutcomes :
       LET args == [name |-> name, file |-> file, environmentGroupIds |-> groups]
       IN  Serve(ToolCreateStack, args, HandleCreateStack(args, out))

ServeUpdateStack ==
  /\ Dispatches(ToolUpdateStack)
  /\ \E id \in ToolIds, file \in ToolFiles, groups \in ToolGroups,
        envOverrides \in SampleOverrideArgs, out \in CliUpdateOutcomes :
       LET args == [id |-> id, file |-> file, environmentGroupIds |-> groups,
                    envOverrides |-> envOverrides]
       IN  Serve(ToolUpdateStack, args, HandleUpdateStack(args, out))

NextTool ==
  \/ DoAddStackFeatures
  \/ ServeGetStacks
  \/ ServeGetStackFile
  \/ ServeGetStackEnvNames
  \/ ServeCreateStack
  \/ ServeUpdateStack

SpecTool == InitTool /\ [][NextTool]_vars

-----------------------------------------------------------------------------
(* Properties of the tool handlers *)

\* An entry parseStackEnvOverrides must refuse: not an object, a name that is
\* missing, not a string or empty, or a value that is missing or not a string.
InvalidOverrideEntry(e) ==
  \/ e.j # "object"
  \/ ~\E i \in DOMAIN e.members :
        /\ e.members[i][1] = KeyNameLower
        /\ e.members[i][2].j = "string"
        /\ e.members[i][2].s # ""
  \/ ~\E i \in DOMAIN e.members :
        /\ e.members[i][1] = KeyValueLower
        /\ e.members[i][2].j = "string"

\* The envOverrides argument of the request is an array with an invalid entry.
HasInvalidOverride ==
  /\ request.args.envOverrides.j = "array"
  /\ \E i \in DOMAIN request.args.envOverrides.items :
       InvalidOverrideEntry(request.args.envOverrides.items[i])

\* The envOverrides argument of the request is absent or an empty array.
NoOverrideGiven ==
  \/ request.args.envOverrides.j = "absent"
  \/ request.args.envOverrides.j = "array" /\ Len(request.args.envOverrides.items) = 0

\* The id, file and environmentGroupIds arguments of the request are well formed.
OtherArgsValid ==
  /\ request.args.id.j = "number"
  /\ request.args.file.j = "string"
  /\ request.args.environmentGroupIds.j = "array"

InvalidOverridesResult ==
  /\ result.isError
  /\ result.text = "invalid envOverrides parameter"

\* C26 as stated: an update request with an invalid envOverrides entry gets
\* the "invalid envOverrides parameter" tool error and the client's
\* UpdateStack is not called; an absent or empty envOverrides reaches the
\* client as an empty override list.
C26_InvalidOverridesRejected ==
  request.tool = ToolUpdateStack =>
    /\ HasInvalidOverride => InvalidOverridesResult /\ cliCall = NoCliCall
    /\ (NoOverrideGiven /\ cliCall # NoCliCall) =>
         cliCall.method = "UpdateStack" /\ cliCall.args.envOverrides = <<>>

\* C26, amended: an update request with an invalid envOverrides entry never
\* reaches the client's UpdateStack; it gets the "invalid envOverrides
\* parameter" tool error when its id, file and environmentGroupIds are well
\* formed, and the error of the first malformed one of these otherwise.  With
\* those three well formed, an absent or empty envOverrides reaches the
\* client as an empty override list.
C26_InvalidOverridesNeverReachClient ==
  request.tool = ToolUpdateStack =>
    /\ HasInvalidOverride =>
         /\ cliCall = NoCliCall
         /\ result.isError
         /\ OtherArgsValid => InvalidOverridesResult
         /\ request.args.id.j # "number" => result.text = "invalid id parameter"
         /\ (request.args.id.j = "number" /\ request.args.file.j # "string")
              => result.text = "invalid file parameter"
         /\ (request.args.id.j = "number" /\ request.args.file.j = "string"
               /\ request.args.environmentGroupIds.j # "array")
              => result.text = "invalid environmentGroupIds parameter"
    /\ (NoOverrideGiven /\ OtherArgsValid) =>
         /\ cliCall.method = "UpdateStack"
         /\ cliCall.args.envOverrides = <<>>

\* A valid entry followed by one with an empty name is refused.
C26_Witness ==
  /\ request.tool = ToolUpdateStack
  /\ OtherArgsValid
  /\ request.args.envOverrides =
       JArray(<<OverrideEntry(JString("A"), JString("1")),
                OverrideEntry(JString(""), JString("9"))>>)
  /\ InvalidOverridesResult
  /\ cliCall = NoCliCall

\* C27: on a read-only server AddStackFeatures registers no tool besides
\* list-stacks, get-stack-file and get-stack-env-names (each when defined), so
\* no tool call reaches the client's CreateStack or UpdateStack.
C27_ReadOnlyRegistersReaders ==
  readOnly =>
    /\ registered \subseteq {ToolListStacks, ToolGetStackFile, ToolGetStackEnvNames}
    /\ srvPc = "serving" =>
         registered = definedTools \cap {ToolListStacks, ToolGetStackFile, ToolGetStackEnvNames}
    /\ request.tool \notin {ToolCreateStack, ToolUpdateStack}
    /\ cliCall.method \notin {"CreateStack", "UpdateStack"}

\* A read-only server with all five definitions serves a get-stack-env-names call.
C27_Witness ==
  /\ readOnly
  /\ definedTools = AllTools
  /\ registered = {ToolListStacks, ToolGetStackFile, ToolGetStackEnvNames}
  /\ request.tool = ToolGetStackEnvNames
  /\ cliCall.method = "GetStackEnvNames"

=============================================================================
